---------------------------- MODULE Spec2Model ----------------------------
(***************************************************************************)
(* A model of dmclc5: descriptor merging (utils.rs), mod dependency        *)
(* validation (components/mods.rs) and the download orchestrator           *)
(* (utils/download.rs).  Each subsystem has a specification of its own;    *)
(* the variables of the other subsystems stay at their idle values.        *)
(***************************************************************************)
EXTENDS Integers, Sequences, FiniteSets, TLC

VARIABLES
    obj,        \* merge: the base VersionJSON (argument `a`)
    overlay,    \* merge: the overlay VersionJSON (argument `b`)
    merged,     \* merge: <<>> before the call, <<Result<VersionJSON>>> after
    mods,       \* mods: the HashMap<String, ModInfo> under validation
    dependency, \* mods: the DepRequirement given to check_mod_dependency
    opposite,   \* mods: the flag given to check_mod_dependency
    ret,        \* mods: <<>> before check_mod_dependency, <<bool>> after
    issues,     \* mods: the Vec<ModIssue> check_mod_dependencies returned
    checked,    \* mods: whether check_mod_dependencies has returned
    resources,  \* download: the Vec<(Resource, BetterPath)> given to download_all
    disk,       \* download: destination path -> the file there (NoFile: none)
    threads_per_file,   \* download: argument
    parallel_files,     \* download: argument
    retries,            \* download: argument
    mirror,             \* download: argument, Option<String>
    dpc,        \* download: where download_all is: "check", "fetch", "returned"
    sources,    \* download: the Sources handed to the fetch engine, in order
    status,     \* download: per source "queued", "active", "ok", "err", "yielded"
    tries,      \* download: per source, the failed attempts so far
    engine_tx,  \* download: the engine's event channel (tx -> rx), a FIFO
    channel,    \* download: path -> the messages about it sent on the caller's
                \* channel, in the order sent (the order of messages about
                \* different paths is not kept)
    requested,  \* download: the URLs a network request was made to
    blocked,    \* download: the destinations whose parent directory cannot
                \* be created (fs::create_dir_all fails)
    current_os, \* rules: get_os(), fixed by the build target
    libraries,  \* rules: the Vec<Library> given to install_libraries
    argument,   \* rules: the Argument given to transform_arg
    planned,    \* rules: <<>> before install_libraries, <<its result>> after
    classpath,  \* rules: <<>> before gen_classpath, <<its result>> after
    transformed,    \* rules: <<>> before transform_arg, <<its result>> after
    installer,  \* install: the ComponentInstaller: "fabric", "forge", "neoforge"
    profile,    \* install: shape of install_profile.json: "old", "new" ("none"
                \* for the fabric-like installers, which have no such file)
    persisted,  \* install: <<>> or <<the VersionJSON in versions/<name>/<name>.json>>
    downloaded, \* install: <<>> or <<the libraries planned for download_all>>
    install_ret,    \* install: <<>> before install, <<Result<()>>> after
    overlay2,   \* merge: a second overlay VersionJSON, applied after `overlay`
    regrouped,  \* merge: <<>> or <<merge(obj, merge(overlay, overlay2))>>
    receiver_dropped,   \* download: whether the caller dropped its receiver
    always_nohash,  \* rules: the always_download_nohash flag of complete_files
    unzipped,   \* rules: <<>> before unzip_natives, <<its outcome>> after
    game_version,   \* install: extra_data.version, Option<String>
    components, \* install: extra_data.components, the Vec<ComponentInfo>
    extras_file,    \* install: <<>> or <<the document in dmclc_extras.json>>
    component_ret,  \* install: <<>> before install_component, <<Result>> after
    invoked,    \* install: the installers and mod loaders called so far
    mod_files,  \* mods: the entries of the mods directory
    list_ret,   \* mods: <<>> before list_mods, <<Result>> after
    deps_ret,   \* mods: <<>> before the installation's check_mod_dependencies,
                \* <<Result>> after
    version_list,   \* versions: the VersionList
    release_ret,    \* versions: <<>> or <<get_latest_release()>>
    snapshot_ret,   \* versions: <<>> or <<get_latest_snapshot()>>
    extra_jvm_arguments,    \* launch: extra_data.extra_jvm_arguments
    extra_game_arguments,   \* launch: extra_data.extra_game_arguments
    launch_ret  \* launch: <<>> before launch_args, <<the argument vector>> after

mergeVars == <<obj, overlay, merged, overlay2, regrouped>>
modVars == <<mods, dependency, opposite, ret, issues, checked>>

downloadVars ==
    <<resources, disk, threads_per_file, parallel_files, retries, mirror, dpc,
      sources, status, tries, engine_tx, channel, requested, blocked,
      receiver_dropped>>

ruleVars ==
    <<current_os, libraries, argument, planned, classpath, transformed,
      always_nohash, unzipped>>

installVars ==
    <<installer, profile, persisted, downloaded, install_ret, game_version,
      components, extras_file, component_ret, invoked>>

listVars == <<mod_files, list_ret, deps_ret>>

versionVars == <<version_list, release_ret, snapshot_ret>>

launchVars == <<extra_jvm_arguments, extra_game_arguments, launch_ret>>

otherVars == <<listVars, versionVars, launchVars>>

vars == <<mergeVars, modVars, downloadVars, ruleVars, installVars, otherVars>>

(***************************************************************************)
(* Bounds.                                                                 *)
(***************************************************************************)
MaxLibs == 2
MaxArgs == 1

(***************************************************************************)
(* Option<T> (schemas.rs: Option<Vec<Argument>>).                          *)
(***************************************************************************)
None == [some |-> FALSE, v |-> <<>>]
Some(x) == [some |-> TRUE, v |-> x]

SeqsUpTo(S, n) == UNION {[1..k -> S] : k \in 0..n}

(***************************************************************************)
(* VersionJSON (schemas.rs).  The base carries the libraries, the entry    *)
(* class and, under `id`, every field merge_version_json copies untouched. *)
(***************************************************************************)
LibraryNames == {"lib1", "lib2"}

VersionJSONBase(who) ==
    [id : {who}, main_class : {who}, libraries : SeqsUpTo(LibraryNames, MaxLibs)]

OptionArgs(who) == {None} \cup {Some(s) : s \in SeqsUpTo({who}, MaxArgs)}

Arguments(who) == [game : OptionArgs(who), jvm : OptionArgs(who)]

VersionJSONOld(who) ==
    [style : {"Old"}, base : VersionJSONBase(who), minecraft_arguments : {who}]

VersionJSONNew(who) ==
    [style : {"New"}, base : VersionJSONBase(who), arguments : Arguments(who)]

VersionJSON(who) == VersionJSONOld(who) \cup VersionJSONNew(who)

Ok(x) == [ok |-> TRUE, value |-> x]
Err(e) == [ok |-> FALSE, error |-> e]

(***************************************************************************)
(* merge_version_json (utils.rs 106-137).                                  *)
(***************************************************************************)
merged_libraries_base_first(a, b) == a.base.libraries \o b.base.libraries

merged_libraries(a, b) == b.base.libraries \o a.base.libraries

new_game_overlay_first(a, b) ==
    IF ~a.arguments.game.some THEN b.arguments.game
    ELSE IF b.arguments.game.some
         THEN Some(b.arguments.game.v \o a.arguments.game.v)
         ELSE a.arguments.game

new_game(a, b) ==
    IF ~a.arguments.game.some THEN b.arguments.game
    ELSE IF b.arguments.game.some
         THEN Some(a.arguments.game.v \o b.arguments.game.v)
         ELSE a.arguments.game

new_jvm(a, b) ==
    IF ~a.arguments.jvm.some THEN b.arguments.jvm
    ELSE IF b.arguments.jvm.some
         THEN Some(a.arguments.jvm.v \o b.arguments.jvm.v)
         ELSE a.arguments.jvm

merge_base_overlay_twice(a, b) ==
    [a.base EXCEPT !.libraries = b.base.libraries \o merged_libraries(a, b),
                   !.main_class = b.base.main_class]

merge_base(a, b) ==
    [a.base EXCEPT !.libraries = merged_libraries(a, b),
                   !.main_class = b.base.main_class]

merge_version_json_unchecked(a, b) ==
    IF a.style = "Old"
    THEN Ok([style |-> "Old", base |-> merge_base(a, b),
             minecraft_arguments |->
                 IF b.style = "Old" THEN b.minecraft_arguments ELSE ""])
    ELSE IF b.style = "New"
         THEN Ok([style |-> "New", base |-> merge_base(a, b),
                  arguments |-> [game |-> new_game(a, b), jvm |-> new_jvm(a, b)]])
         ELSE Err("try to merge different kinds of version json!")

merge_version_json(a, b) ==
    IF a.style = "Old"
    THEN IF b.style = "Old"
         THEN Ok([style |-> "Old", base |-> merge_base(a, b),
                  minecraft_arguments |-> b.minecraft_arguments])
         ELSE Err("try to merge different kinds of version json!")
    ELSE IF b.style = "New"
         THEN Ok([style |-> "New", base |-> merge_base(a, b),
                  arguments |-> [game |-> new_game(a, b), jvm |-> new_jvm(a, b)]])
         ELSE Err("try to merge different kinds of version json!")

(***************************************************************************)
(* The merge specification: the inputs are drawn in InitMerge, Merge       *)
(* applies merge_version_json(obj, overlay) as the installers do           *)
(* (fabriclike.rs 130, forgelike.rs 133 and 191).                          *)
(***************************************************************************)
MergeIdle ==
    /\ obj = <<>> /\ overlay = <<>> /\ merged = <<>>
    /\ overlay2 = <<>> /\ regrouped = <<>>

ModsIdle ==
    /\ mods = <<>> /\ dependency = <<>> /\ opposite = FALSE
    /\ ret = <<>> /\ issues = <<>> /\ checked = FALSE

DownloadIdle ==
    /\ resources = <<>> /\ disk = <<>> /\ threads_per_file = 0
    /\ parallel_files = 0 /\ retries = 0 /\ mirror = None /\ dpc = "idle"
    /\ sources = <<>> /\ status = <<>> /\ tries = <<>> /\ engine_tx = <<>>
    /\ channel = <<>> /\ requested = {} /\ blocked = {}
    /\ receiver_dropped = FALSE

RulesIdle ==
    /\ current_os = "" /\ libraries = <<>> /\ argument = <<>>
    /\ planned = <<>> /\ classpath = <<>> /\ transformed = <<>>
    /\ always_nohash = FALSE /\ unzipped = <<>>

InstallIdle ==
    /\ installer = "" /\ profile = "" /\ persisted = <<>>
    /\ downloaded = <<>> /\ install_ret = <<>>
    /\ game_version = None /\ components = <<>> /\ extras_file = <<>>
    /\ component_ret = <<>> /\ invoked = {}

ListIdle == mod_files = <<>> /\ list_ret = <<>> /\ deps_ret = <<>>

VersionsIdle == version_list = <<>> /\ release_ret = <<>> /\ snapshot_ret = <<>>

LaunchIdle ==
    /\ extra_jvm_arguments = None /\ extra_game_arguments = None
    /\ launch_ret = <<>>

OthersIdle == ListIdle /\ VersionsIdle /\ LaunchIdle

InitMerge ==
    /\ obj \in VersionJSON("base")
    /\ overlay \in VersionJSON("overlay")
    /\ merged = <<>>
    /\ overlay2 = <<>>
    /\ regrouped = <<>>
    /\ ModsIdle
    /\ DownloadIdle
    /\ RulesIdle
    /\ InstallIdle
    /\ OthersIdle

Merge ==
    /\ obj # <<>>
    /\ merged = <<>>
    /\ merged' = <<merge_version_json(obj, overlay)>>
    /\ UNCHANGED <<otherVars, overlay2, regrouped, obj, overlay, modVars, downloadVars, ruleVars, installVars>>

NextMerge == Merge

SpecMerge == InitMerge /\ [][NextMerge]_vars

(***************************************************************************)
(* C1: for base and overlay of one style the merged library list is the    *)
(* overlay's entries followed by the base's entries, every entry kept in   *)
(* its place, so its length is the sum of the two lengths.                 *)
(***************************************************************************)
C1_LibrariesOverlayThenBase ==
    (merged # <<>> /\ obj.style = overlay.style) =>
        /\ merged[1].ok
        /\ LET libs == merged[1].value.base.libraries
               ov == overlay.base.libraries
               ba == obj.base.libraries
           IN /\ Len(libs) = Len(ba) + Len(ov)
              /\ \A i \in 1..Len(ov) : libs[i] = ov[i]
              /\ \A j \in 1..Len(ba) : libs[Len(ov) + j] = ba[j]

C1_Witness ==
    /\ merged # <<>>
    /\ obj.style = overlay.style
    /\ obj.base.libraries = <<"lib1", "lib2">>
    /\ overlay.base.libraries = <<"lib2", "lib1">>
    /\ merged[1].ok
    /\ merged[1].value.base.libraries = <<"lib2", "lib1", "lib1", "lib2">>

(***************************************************************************)
(* C2: the merge is an error exactly when the two styles differ, and a     *)
(* successful merge has the common style.                                  *)
(***************************************************************************)
C2_ErrorIffStylesDiffer ==
    merged # <<>> =>
        /\ merged[1].ok <=> (obj.style = overlay.style)
        /\ merged[1].ok => merged[1].value.style = obj.style

C2_Witness ==
    /\ merged # <<>>
    /\ obj.style = "Old"
    /\ overlay.style = "New"
    /\ ~merged[1].ok

(***************************************************************************)
(* C3: for new-style descriptors the game list and the jvm list are each   *)
(* merged by the same rule, from that list alone: the base's list when the *)
(* overlay has none, the overlay's list when the base has none, else the   *)
(* base's list followed by the overlay's.                                  *)
(***************************************************************************)
C3_Rule(base_list, overlay_list, result) ==
    /\ ~overlay_list.some => result = base_list
    /\ ~base_list.some => result = overlay_list
    /\ (base_list.some /\ overlay_list.some) =>
           /\ result.some
           /\ Len(result.v) = Len(base_list.v) + Len(overlay_list.v)
           /\ \A i \in 1..Len(base_list.v) : result.v[i] = base_list.v[i]
           /\ \A j \in 1..Len(overlay_list.v) :
                  result.v[Len(base_list.v) + j] = overlay_list.v[j]

C3_ArgumentListsMerged ==
    (merged # <<>> /\ obj.style = "New" /\ overlay.style = "New") =>
        /\ merged[1].ok
        /\ C3_Rule(obj.arguments.game, overlay.arguments.game,
                   merged[1].value.arguments.game)
        /\ C3_Rule(obj.arguments.jvm, overlay.arguments.jvm,
                   merged[1].value.arguments.jvm)

C3_Witness ==
    /\ merged # <<>>
    /\ obj.style = "New" /\ overlay.style = "New"
    /\ obj.arguments.game = Some(<<"base">>)
    /\ overlay.arguments.game = Some(<<"overlay">>)
    /\ ~obj.arguments.jvm.some
    /\ overlay.arguments.jvm = Some(<<"overlay">>)
    /\ merged[1].ok
    /\ merged[1].value.arguments.game = Some(<<"base", "overlay">>)
    /\ merged[1].value.arguments.jvm = Some(<<"overlay">>)


(***************************************************************************)
(* Versions and version requirements (components/mods.rs 16-31).  A        *)
(* version is a number 0..MaxVersion (0 stands for 0.9, 1 for 1.0, ...);   *)
(* a versions::Requirement is a comparison against one version.            *)
(***************************************************************************)
MaxVersion == 2
MaxUnless == 2
MaxEntries == 2

Versioning == 0..MaxVersion

requirement_matches(r, version) ==
    CASE r.op = "=" -> version = r.version
      [] r.op = ">=" -> version >= r.version
      [] r.op = ">" -> version > r.version
      [] r.op = "<=" -> version <= r.version
      [] r.op = "<" -> version < r.version
      [] r.op = "*" -> TRUE

\* VersionBound::matches: every Requirement of the bound matches.
VersionBound_matches_any(bound, version) ==
    \E k \in 1..Len(bound) : requirement_matches(bound[k], version)

VersionBound_matches(bound, version) ==
    \A k \in 1..Len(bound) : requirement_matches(bound[k], version)

AtLeast1 == <<[op |-> ">=", version |-> 1]>>
From1Below2 == <<[op |-> ">=", version |-> 1], [op |-> "<", version |-> 2]>>
Exactly0 == <<[op |-> "=", version |-> 0]>>

\* The values of DepRequirement::version the inputs are drawn from.
VersionLists == {<<>>, <<AtLeast1>>, <<From1Below2>>, <<Exactly0, From1Below2>>, <<<<>>>>}

DepRequirement(id, version, unless) ==
    [id |-> id, version |-> version, unless |-> unless]

TargetIds == {"b", "c"}

UnlessReqs ==
    { DepRequirement("c", <<>>, <<>>),
      DepRequirement("b", <<AtLeast1>>, <<>>),
      DepRequirement("c", <<AtLeast1>>, <<DepRequirement("b", <<>>, <<>>)>>) }

DepRequirements ==
    { DepRequirement(id, version, unless) :
        id \in TargetIds, version \in VersionLists,
        unless \in SeqsUpTo(UnlessReqs, MaxUnless) }

Relations == <<"depends", "recommends", "suggests", "conflicts", "breaks">>

RelationOf(entries, rel) ==
    LET Is(e) == e[1] = rel
        picked == SelectSeq(entries, Is)
    IN [k \in 1..Len(picked) |-> picked[k][2]]

\* ModInfo; desc and license are not read by the validation.
ModInfo(id, name, version, entries) ==
    [id |-> id, name |-> name, version |-> version,
     depends |-> RelationOf(entries, "depends"),
     recommends |-> RelationOf(entries, "recommends"),
     suggests |-> RelationOf(entries, "suggests"),
     conflicts |-> RelationOf(entries, "conflicts"),
     breaks |-> RelationOf(entries, "breaks")]

OptionVersions == {None} \cup {Some(v) : v \in Versioning}

(***************************************************************************)
(* check_mod_dependency (components/mods.rs 158-180).                      *)
(***************************************************************************)
RECURSIVE check_mod_dependency_any_unless_ignored(_, _, _)
check_mod_dependency_any_unless_ignored(ms, dep, opp) ==
    IF dep.id \in DOMAIN ms
    THEN IF dep.version = <<>>
         THEN ~opp
         ELSE IF \E i \in 1..Len(dep.version) :
                    \/ ~ms[dep.id].version.some
                    \/ VersionBound_matches(dep.version[i], ms[dep.id].version.v)
              THEN ~opp
              ELSE opp
    ELSE opp

RECURSIVE check_mod_dependency_all_bounds(_, _, _)
check_mod_dependency_all_bounds(ms, dep, opp) ==
    IF \E i \in 1..Len(dep.unless) :
           check_mod_dependency_all_bounds(ms, dep.unless[i], FALSE)
    THEN TRUE
    ELSE IF dep.id \in DOMAIN ms
         THEN IF dep.version = <<>>
              THEN ~opp
              ELSE IF \A i \in 1..Len(dep.version) :
                         \/ ~ms[dep.id].version.some
                         \/ VersionBound_matches(dep.version[i], ms[dep.id].version.v)
                   THEN ~opp
                   ELSE opp
         ELSE opp

RECURSIVE check_mod_dependency(_, _, _)
check_mod_dependency(ms, dep, opp) ==
    IF \E i \in 1..Len(dep.unless) : check_mod_dependency(ms, dep.unless[i], FALSE)
    THEN TRUE
    ELSE IF dep.id \in DOMAIN ms
         THEN IF dep.version = <<>>
              THEN ~opp
              ELSE IF \E i \in 1..Len(dep.version) :
                         \/ ~ms[dep.id].version.some
                         \/ VersionBound_matches(dep.version[i], ms[dep.id].version.v)
                   THEN ~opp
                   ELSE opp
         ELSE opp

(***************************************************************************)
(* check_mod_dependencies (components/mods.rs 186-216).  `order` is the    *)
(* order in which mods.values() yields the mods of the HashMap.            *)
(***************************************************************************)
relation_opposite_none(rel) == FALSE

relation_opposite(rel) == rel \in {"conflicts", "breaks"}

relation_level(rel) ==
    CASE rel = "depends" -> "Hard"
      [] rel = "recommends" -> "Soft"
      [] rel = "suggests" -> "Suggestive"
      [] rel = "conflicts" -> "Soft"
      [] rel = "breaks" -> "Hard"

ModIssue(level, source, rel, dep) ==
    [level |-> level,
     message |-> [source |-> source, relation |-> rel, dependency |-> dep]]

source_of(i) == IF i.name.some THEN i.name.v ELSE i.id

RECURSIVE Flatten(_)
Flatten(ss) == IF ss = <<>> THEN <<>> ELSE Head(ss) \o Flatten(Tail(ss))

relation_issues(ms, i, rel) ==
    LET Unmet(dep) == ~check_mod_dependency(ms, dep, relation_opposite(rel))
        unmet == SelectSeq(i[rel], Unmet)
    IN [k \in 1..Len(unmet) |->
           ModIssue(relation_level(rel), source_of(i), rel, unmet[k])]

mod_issues(ms, i) ==
    Flatten([r \in 1..Len(Relations) |-> relation_issues(ms, i, Relations[r])])

RECURSIVE Dedup(_)
Dedup(s) ==
    IF s = <<>> THEN <<>>
    ELSE LET rest == Dedup(Tail(s))
         IN IF \E k \in 1..Len(rest) :
                   rest[k].message.dependency = Head(s).message.dependency
            THEN rest ELSE <<Head(s)>> \o rest

check_mod_dependencies_dedup(ms, order) ==
    Dedup(Flatten([k \in 1..Len(order) |-> mod_issues(ms, ms[order[k]])]))

check_mod_dependencies(ms, order) ==
    Flatten([k \in 1..Len(order) |-> mod_issues(ms, ms[order[k]])])

Orders(S) ==
    {s \in [1..Cardinality(S) -> S] : \A i, j \in 1..Cardinality(S) : i # j => s[i] # s[j]}

(***************************************************************************)
(* SpecDep: one requirement, given to check_mod_dependency with either     *)
(* flag and declared by mod "a" in each of its five relation lists, which  *)
(* check_mod_dependencies then validates.  The map holds "a" and the       *)
(* targets "b" and "c", each absent or present with an unset or a set      *)
(* version.                                                                *)
(***************************************************************************)
Target(id, version) == ModInfo(id, None, version, <<>>)

EveryRelation(dep) == [r \in 1..Len(Relations) |-> <<Relations[r], dep>>]

InitDep ==
    /\ dependency \in DepRequirements
    /\ opposite \in BOOLEAN
    /\ \E S \in SUBSET TargetIds, f \in [TargetIds -> OptionVersions] :
          mods = [id \in S \cup {"a"} |->
                     IF id = "a"
                     THEN ModInfo("a", Some("Mod A"), Some(1), EveryRelation(dependency))
                     ELSE Target(id, f[id])]
    /\ ret = <<>>
    /\ issues = <<>>
    /\ checked = FALSE
    /\ MergeIdle
    /\ DownloadIdle
    /\ RulesIdle
    /\ InstallIdle
    /\ OthersIdle

CheckModDependency ==
    /\ dependency # <<>>
    /\ ret = <<>>
    /\ ret' = <<check_mod_dependency(mods, dependency, opposite)>>
    /\ UNCHANGED <<otherVars, mods, dependency, opposite, issues, checked, mergeVars, downloadVars, ruleVars, installVars>>

CheckModDependencies ==
    /\ mods # <<>>
    /\ ~checked
    /\ \E order \in Orders(DOMAIN mods) :
          issues' = check_mod_dependencies(mods, order)
    /\ checked' = TRUE
    /\ UNCHANGED <<otherVars, mods, dependency, opposite, ret, mergeVars, downloadVars, ruleVars, installVars>>

NextDep == CheckModDependency \/ CheckModDependencies

SpecDep == InitDep /\ [][NextDep]_vars

(***************************************************************************)
(* SpecDeps: check_mod_dependencies on maps whose mods declare several     *)
(* requirements.  Mod "a" declares up to MaxEntries requirements spread    *)
(* over the five relations, mod "d" (when present) one requirement on the  *)
(* same target.                                                            *)
(***************************************************************************)
NeedsB == DepRequirement("b", <<>>, <<>>)
NeedsB1UnlessC == DepRequirement("b", <<AtLeast1>>, <<DepRequirement("c", <<>>, <<>>)>>)

ListedReqs == {NeedsB, NeedsB1UnlessC}

Entries == {<<Relations[r], dep>> : r \in 1..Len(Relations), dep \in ListedReqs}

OtherMods ==
    { <<>>,
      [d |-> ModInfo("d", None, Some(1), <<<<"depends", NeedsB>>>>)],
      [d |-> ModInfo("d", None, Some(1), <<<<"breaks", NeedsB>>>>)] }

InitDeps ==
    /\ \E entries \in SeqsUpTo(Entries, MaxEntries),
          bv \in {<<>>} \cup {<<v>> : v \in OptionVersions},
          cp \in BOOLEAN,
          other \in OtherMods :
          mods = [id \in {"a"} \cup (IF bv = <<>> THEN {} ELSE {"b"})
                          \cup (IF cp THEN {"c"} ELSE {}) \cup DOMAIN other |->
                     CASE id = "a" -> ModInfo("a", Some("Mod A"), Some(1), entries)
                       [] id = "b" -> Target("b", bv[1])
                       [] id = "c" -> Target("c", Some(1))
                       [] id = "d" -> other.d]
    /\ dependency = <<>>
    /\ opposite = FALSE
    /\ ret = <<>>
    /\ issues = <<>>
    /\ checked = FALSE
    /\ MergeIdle
    /\ DownloadIdle
    /\ RulesIdle
    /\ InstallIdle
    /\ OthersIdle

NextDeps == CheckModDependencies

SpecDeps == InitDeps /\ [][NextDeps]_vars

(***************************************************************************)
(* C4: for a requirement with an empty unless list check_mod_dependency    *)
(* returns the flag when the target is not in the map, the negated flag    *)
(* when the target is present and the requirement has no version bounds,   *)
(* and with bounds the negated flag iff the target's version is unset or   *)
(* some bound has all of its predicates matching, else the flag.           *)
(***************************************************************************)
C4_BoundMatches(bound, version) ==
    \A k \in 1..Len(bound) : requirement_matches(bound[k], version)

C4_RequirementWithoutUnless ==
    (ret # <<>> /\ dependency.unless = <<>>) =>
        ret[1] =
            IF dependency.id \notin DOMAIN mods THEN opposite
            ELSE IF dependency.version = <<>> THEN ~opposite
            ELSE IF \/ ~mods[dependency.id].version.some
                    \/ \E i \in 1..Len(dependency.version) :
                          C4_BoundMatches(dependency.version[i],
                                          mods[dependency.id].version.v)
                 THEN ~opposite
                 ELSE opposite

C4_Witness ==
    /\ ret = <<TRUE>>
    /\ ~opposite
    /\ dependency = DepRequirement("b", <<Exactly0, From1Below2>>, <<>>)
    /\ "b" \in DOMAIN mods
    /\ mods["b"].version = Some(1)

(***************************************************************************)
(* C5: when some entry of the requirement's unless list is itself          *)
(* satisfied (evaluated with the flag false), check_mod_dependency returns *)
(* true for either flag and any state of the target, and                   *)
(* check_mod_dependencies reports no issue for that requirement in any of  *)
(* the five relation lists.                                                *)
(***************************************************************************)
C5_UnlessSatisfied ==
    \E i \in 1..Len(dependency.unless) :
        check_mod_dependency(mods, dependency.unless[i], FALSE)

C5_UnlessShortCircuits ==
    (dependency # <<>> /\ C5_UnlessSatisfied) =>
        /\ ret # <<>> => ret[1] = TRUE
        /\ checked => \A k \in 1..Len(issues) :
                          issues[k].message.dependency # dependency

C5_Witness ==
    /\ dependency # <<>>
    /\ C5_UnlessSatisfied
    /\ dependency.id \notin DOMAIN mods
    /\ ~opposite
    /\ ret = <<TRUE>>
    /\ checked
    /\ issues = <<>>

(***************************************************************************)
(* C6: check_mod_dependencies evaluates depends, recommends and suggests   *)
(* with the flag false and conflicts and breaks with the flag true, and    *)
(* reports an unmet requirement as Hard, Soft, Suggestive, Soft and Hard   *)
(* respectively: one issue per declared requirement that is unmet under    *)
(* its relation's flag and none otherwise.  So a conflicts or breaks       *)
(* requirement on an absent target yields no issue, and one on a present   *)
(* target without version bounds (and without a satisfied unless entry,    *)
(* the case of C5) yields exactly one.                                     *)
(***************************************************************************)
C6_Table ==
    [depends |-> [invert |-> FALSE, level |-> "Hard"],
     recommends |-> [invert |-> FALSE, level |-> "Soft"],
     suggests |-> [invert |-> FALSE, level |-> "Suggestive"],
     conflicts |-> [invert |-> TRUE, level |-> "Soft"],
     breaks |-> [invert |-> TRUE, level |-> "Hard"]]

C6_IssuesOf(rel) == {k \in 1..Len(issues) : issues[k].message.relation = rel}

C6_RelationFlagsAndSeverities ==
    (checked /\ dependency # <<>>) =>
        \A rel \in DOMAIN C6_Table :
            /\ \A k \in C6_IssuesOf(rel) :
                  /\ issues[k].level = C6_Table[rel].level
                  /\ issues[k].message.dependency = dependency
                  /\ issues[k].message.source = "Mod A"
            /\ Cardinality(C6_IssuesOf(rel)) =
                  IF check_mod_dependency(mods, dependency, C6_Table[rel].invert)
                  THEN 0 ELSE 1
            /\ (C6_Table[rel].invert /\ dependency.id \notin DOMAIN mods) =>
                  C6_IssuesOf(rel) = {}
            /\ (C6_Table[rel].invert /\ dependency.id \in DOMAIN mods
                  /\ dependency.version = <<>> /\ ~C5_UnlessSatisfied) =>
                  Cardinality(C6_IssuesOf(rel)) = 1

C6_Witness ==
    /\ checked
    /\ dependency = DepRequirement("b", <<>>, <<>>)
    /\ "b" \in DOMAIN mods
    /\ Len(issues) = 2
    /\ issues[1] = ModIssue("Soft", "Mod A", "conflicts", dependency)
    /\ issues[2] = ModIssue("Hard", "Mod A", "breaks", dependency)

(***************************************************************************)
(* C7: the returned list holds one issue for every (mod, relation, entry)  *)
(* whose requirement is unmet and nothing else; each mod's issues are in   *)
(* relation order depends, recommends, suggests, conflicts, breaks and,    *)
(* within a relation, in entry order; two mods missing the same target     *)
(* give two issues.                                                        *)
(***************************************************************************)
C7_Unmet(m) ==
    {p \in (1..Len(Relations)) \X (1..MaxEntries) :
        /\ p[2] <= Len(m[Relations[p[1]]])
        /\ ~check_mod_dependency(mods, m[Relations[p[1]]][p[2]], p[1] >= 4)}

C7_Before(p, q) == p[1] < q[1] \/ (p[1] = q[1] /\ p[2] < q[2])

C7_Expected(m) ==
    LET T == C7_Unmet(m)
    IN [j \in 1..Cardinality(T) |->
           LET p == CHOOSE p \in T : Cardinality({q \in T : C7_Before(q, p)}) = j - 1
           IN [source |-> source_of(m), relation |-> Relations[p[1]],
               dependency |-> m[Relations[p[1]]][p[2]]]]

C7_OneIssuePerUnmetEntryInOrder ==
    (checked /\ dependency = <<>>) =>
        \E order \in Orders(DOMAIN mods) :
            [k \in 1..Len(issues) |-> issues[k].message] =
                Flatten([k \in 1..Len(order) |-> C7_Expected(mods[order[k]])])

C7_Witness ==
    /\ checked /\ dependency = <<>>
    /\ DOMAIN mods = {"a", "d"}
    /\ mods["d"].depends = <<NeedsB>>
    /\ mods["a"].depends = <<NeedsB>>
    /\ mods["a"].suggests = <<NeedsB>>
    /\ Len(issues) = 3
    /\ issues[1].message.source = "d"
    /\ issues[2] = ModIssue("Hard", "Mod A", "depends", NeedsB)
    /\ issues[3] = ModIssue("Suggestive", "Mod A", "suggests", NeedsB)

(***************************************************************************)
(* The download orchestrator (utils/download.rs).                          *)
(*                                                                         *)
(* Files: a file on disk has a content, of which the model keeps the       *)
(* lower-case hex SHA-1 and the size, and may be unreadable.               *)
(***************************************************************************)
MaxRes == 2
MaxParallel == 2
MaxRetries == 2

ThreadsPerFile == {1, 2}

NoFile == [exists |-> FALSE, sha1 |-> "", size |-> 0, readable |-> FALSE]
FileOf(sha1, size, readable) ==
    [exists |-> TRUE, sha1 |-> sha1, size |-> size, readable |-> readable]

Good == FileOf("aa", 1, TRUE)       \* the content the resources describe
Unreadable == FileOf("aa", 1, FALSE)
Other == FileOf("bb", 1, TRUE)      \* another content of the same size
Partial == FileOf("cc", 0, TRUE)    \* what an interrupted transfer leaves

Paths == {"libraries/p1", "libraries/p2"}

Url(host, path) == [host |-> host, path |-> path]

Resource(url, sha1, size) == [url |-> url, sha1 |-> sha1, size |-> size]

\* The (Resource, path) entries the resource lists are drawn from.
ResourceEntries ==
    LET u1 == Url("libraries.minecraft.net", "p1")
        u2 == Url("example.org", "p2")
    IN { <<Resource(u1, "aa", 1), "libraries/p1">>,      \* digest and size
         <<Resource(u1, "aa", 0), "libraries/p1">>,      \* size 0: not compared
         <<Resource(u1, "aa", 2), "libraries/p1">>,      \* another size
         <<Resource(u1, "AA", 1), "libraries/p1">>,      \* the digest in upper case
         <<Resource(u2, "aa", 1), "libraries/p2">>,
         <<Resource(u2, "true", 0), "libraries/p2">> }   \* no digest known

\* format!("{out:x}") of the digest of the file's content.
Sha1Hex(file) == file.sha1

(***************************************************************************)
(* check_hash (download.rs 21-41).                                         *)
(***************************************************************************)
check_hash_size_ignored(d, path, digest, size) ==
    IF ~d[path].exists THEN FALSE
    ELSE IF d[path].readable THEN Sha1Hex(d[path]) = digest
    ELSE FALSE

check_hash_unsized_accepted(d, path, digest, size) ==
    IF ~d[path].exists THEN FALSE
    ELSE IF size = 0 THEN d[path].readable
    ELSE IF d[path].size # size THEN FALSE
    ELSE IF d[path].readable THEN Sha1Hex(d[path]) = digest
    ELSE FALSE

check_hash(d, path, digest, size) ==
    IF ~d[path].exists THEN FALSE
    ELSE IF size # 0 /\ d[path].size # size THEN FALSE
    ELSE IF d[path].readable THEN Sha1Hex(d[path]) = digest
    ELSE FALSE

(***************************************************************************)
(* mirrored (download.rs 113-121): the known upstream hosts are rewritten  *)
(* to the mirror, any other URL is left as it is.                          *)
(***************************************************************************)
MirroredHosts ==
    {"resources.download.minecraft.net", "libraries.minecraft.net",
     "files.minecraftforge.net", "maven.fabricmc.net", "maven.neoforged.net"}

mirrored(url, m) == IF url.host \in MirroredHosts THEN [url EXCEPT !.host = m] ELSE url

\* download_all 75-80: the candidate URLs of one resource.
urls_of(res, m) == IF m.some THEN <<mirrored(res.url, m.v), res.url>> ELSE <<res.url>>

Source(dest, urls) == [dest |-> dest, urls |-> urls]

\* check_and_download (download.rs 54-65).
check_and_download(d, path, res, urls) ==
    IF ~check_hash(d, path, res.sha1, res.size)
    THEN Some(Source(path, urls))
    ELSE None

\* download_all 73-86: the Sources of the entries check_and_download kept.
sources_of_all(d, rs, m) ==
    [k \in 1..Len(rs) |-> Source(rs[k][2], urls_of(rs[k][1], m))]

sources_of(d, rs, m) ==
    LET checks == [k \in 1..Len(rs) |->
                      check_and_download(d, rs[k][2], rs[k][1], urls_of(rs[k][1], m))]
        IsSome(v) == v.some
        kept == SelectSeq(checks, IsSome)
    IN [k \in 1..Len(kept) |-> kept[k].v]

\* download_all 94: the second argument of stream_from, the number of
\* fetches the engine keeps in flight (buffer_unordered).
concurrent_files == parallel_files * threads_per_file

\* The engine gives up on a source when a failed attempt finds the attempt
\* counter above `retries` (Fetcher::retries, download.rs 90).
gives_up_at_once(failed_before) == TRUE

gives_up(failed_before) == failed_before > retries

FetchEvent(path, event) == [path |-> path, event |-> event]
OkMessage(e) == [ok |-> TRUE, path |-> e.path, event |-> e.event]
ErrMessage(path) == [ok |-> FALSE, path |-> path, event |-> "error"]

\* UnboundedSender::send on the caller's channel.
send(ch, msg) == [ch EXCEPT ![msg.path] = Append(@, msg)]

\* `let _ = channel.send(..)` (download.rs 100 and 106): after the caller
\* dropped its receiver send is an error, which is ignored.
send_ignoring_error(ch, msg) == IF receiver_dropped THEN ch ELSE send(ch, msg)

\* tokio::fs::remove_file (download.rs 99), its result ignored.
remove_file_skipped(d, path) == d

remove_file(d, path) == [d EXCEPT ![path] = NoFile]

\* fetch_task's `while let` (download.rs 97-102): the result of source i is
\* consumed and the loop goes on to the next result, also after an error.
fetch_task_stops_on_error(st, i) ==
    IF st[i] = "err" THEN [j \in DOMAIN st |-> "yielded"]
    ELSE [st EXCEPT ![i] = "yielded"]

fetch_task_consumed(st, i) == [st EXCEPT ![i] = "yielded"]

\* Whether the engine gave up on source i: its last failed attempt found
\* the retry budget used up.
gave_up_on(i) == tries[i] >= 1 /\ gives_up(tries[i] - 1)

InFlight == {i \in 1..Len(sources) : status[i] \in {"active", "ok", "err"}}
Active == {i \in 1..Len(sources) : status[i] = "active"}
Queued == {i \in 1..Len(sources) : status[i] = "queued"}

(***************************************************************************)
(* One call of download_all, under two families of inputs.                 *)
(*                                                                         *)
(* SpecPreFilter: every list of up to MaxRes of the resource entries       *)
(* above, against every state of the two destinations, fetched one file    *)
(* at a time without retry budget.                                         *)
(*                                                                         *)
(* SpecDownload: lists of resources whose digest and size are those of     *)
(* the remote file, under every combination of threads_per_file,           *)
(* parallel_files, retries and mirror.                                     *)
(***************************************************************************)
DownloadStart ==
    /\ dpc = "check"
    /\ sources = <<>> /\ status = <<>> /\ tries = <<>>
    /\ engine_tx = <<>> /\ channel = [p \in Paths |-> <<>>] /\ requested = {}
    /\ receiver_dropped = FALSE
    /\ MergeIdle
    /\ ModsIdle
    /\ RulesIdle
    /\ InstallIdle
    /\ OthersIdle

Mirrors == {None, Some("mirror.example")}

InitPreFilter ==
    /\ resources \in SeqsUpTo(ResourceEntries, MaxRes)
    /\ \E f1 \in {NoFile, Good, Unreadable, Other}, f2 \in {NoFile, Good} :
          disk = [p \in Paths |-> IF p = "libraries/p1" THEN f1 ELSE f2]
    /\ threads_per_file = 1
    /\ parallel_files = 1
    /\ retries = 0
    /\ mirror \in Mirrors
    /\ blocked = {}
    /\ DownloadStart

FetchEntries ==
    { <<Resource(Url("libraries.minecraft.net", "p1"), "aa", 1), "libraries/p1">>,
      <<Resource(Url("example.org", "p2"), "aa", 1), "libraries/p2">> }

InitDownload ==
    /\ resources \in SeqsUpTo(FetchEntries, MaxRes)
    /\ disk \in [Paths -> {NoFile, Good}]
    /\ threads_per_file \in ThreadsPerFile
    /\ parallel_files \in 1..MaxParallel
    /\ retries \in 0..MaxRetries
    /\ mirror \in Mirrors
    /\ blocked = {}
    /\ DownloadStart

\* download_all 73-94: the pre-filter (join_all of the checks) and the
\* construction of the fetch stream.
PreFilter ==
    /\ dpc = "check"
    /\ sources' = sources_of(disk, resources, mirror)
    /\ status' = [i \in 1..Len(sources') |-> "queued"]
    /\ tries' = [i \in 1..Len(sources') |-> 0]
    /\ dpc' = "fetch"
    /\ UNCHANGED <<otherVars, receiver_dropped, blocked, resources, disk, threads_per_file, parallel_files, retries,
                   mirror, engine_tx, channel, requested, mergeVars, modVars,
                   ruleVars, installVars>>

\* The engine takes the next Source of the stream while fewer than
\* `concurrent` fetches are in flight, and starts its transfer.
StartTransfer ==
    /\ dpc = "fetch"
    /\ Queued # {}
    /\ Cardinality(InFlight) < concurrent_files
    /\ LET i == CHOOSE i \in Queued : \A j \in Queued : i <= j
       IN /\ status' = [status EXCEPT ![i] = "active"]
          /\ engine_tx' = Append(engine_tx, FetchEvent(sources[i].dest, "Fetching"))
          /\ requested' = requested \cup {sources[i].urls[1]}
    /\ UNCHANGED <<otherVars, receiver_dropped, blocked, resources, disk, threads_per_file, parallel_files, retries,
                   mirror, dpc, sources, tries, channel, mergeVars, modVars,
                   ruleVars, installVars>>

\* A transfer completes: the file is at its destination.  No file can be
\* written where the parent directory is missing.
TransferSucceed(i) ==
    /\ dpc = "fetch"
    /\ status[i] = "active"
    /\ sources[i].dest \notin blocked
    /\ status' = [status EXCEPT ![i] = "ok"]
    /\ disk' = [disk EXCEPT ![sources[i].dest] = Good]
    /\ engine_tx' = engine_tx \o <<FetchEvent(sources[i].dest, "ContentLength"),
                                   FetchEvent(sources[i].dest, "Progress"),
                                   FetchEvent(sources[i].dest, "Fetched")>>
    /\ UNCHANGED <<otherVars, receiver_dropped, blocked, resources, threads_per_file, parallel_files, retries, mirror,
                   dpc, sources, tries, channel, requested, mergeVars, modVars,
                   ruleVars, installVars>>

\* An attempt fails, leaving the destination as it was or with a partial
\* file: the engine retries or gives up with an error.
TransferFail(i) ==
    /\ dpc = "fetch"
    /\ status[i] = "active"
    /\ \E left \in (IF sources[i].dest \in blocked
                    THEN {disk[sources[i].dest]}
                    ELSE {disk[sources[i].dest], Partial}) :
          disk' = [disk EXCEPT ![sources[i].dest] = left]
    /\ tries' = [tries EXCEPT ![i] = @ + 1]
    /\ IF gives_up(tries[i])
       THEN /\ status' = [status EXCEPT ![i] = "err"]
            /\ UNCHANGED engine_tx
       ELSE /\ engine_tx' = Append(engine_tx, FetchEvent(sources[i].dest, "Retrying"))
            /\ UNCHANGED status
    /\ UNCHANGED <<otherVars, receiver_dropped, blocked, resources, threads_per_file, parallel_files, retries, mirror,
                   dpc, sources, channel, requested, mergeVars, modVars,
                   ruleVars, installVars>>

\* fetch_task (download.rs 96-103): the next result of the fetch stream.
FetchTaskNext(i) ==
    /\ dpc = "fetch"
    /\ status[i] \in {"ok", "err"}
    /\ status' = fetch_task_consumed(status, i)
    /\ IF status[i] = "err"
       THEN /\ disk' = remove_file(disk, sources[i].dest)
            /\ channel' = send_ignoring_error(channel, ErrMessage(sources[i].dest))
       ELSE UNCHANGED <<disk, channel>>
    /\ UNCHANGED <<otherVars, receiver_dropped, blocked, resources, threads_per_file, parallel_files, retries, mirror,
                   dpc, sources, tries, engine_tx, requested, mergeVars, modVars,
                   ruleVars, installVars>>

\* send_task (download.rs 104-108): forward one engine event.
SendTaskForward ==
    /\ dpc = "fetch"
    /\ engine_tx # <<>>
    /\ channel' = send_ignoring_error(channel, OkMessage(Head(engine_tx)))
    /\ engine_tx' = Tail(engine_tx)
    /\ UNCHANGED <<otherVars, receiver_dropped, blocked, resources, disk, threads_per_file, parallel_files, retries,
                   mirror, dpc, sources, status, tries, requested, mergeVars, modVars,
                   ruleVars, installVars>>

\* fetch_task (download.rs 96-103) ends when the stream has yielded the
\* result of every source; the stream, and with it the engine's sender, is
\* then dropped.
fetch_task_ended == \A i \in 1..Len(sources) : status[i] = "yielded"

\* send_task ending as soon as the sender is dropped.
send_task_ended_undrained == fetch_task_ended

\* send_task (download.rs 104-108) ends when rx.recv() is None: the sender
\* is dropped and no event is left in the channel.
send_task_ended == fetch_task_ended /\ engine_tx = <<>>

\* download.rs 109-110: both tasks have ended.
Return ==
    /\ dpc = "fetch"
    /\ fetch_task_ended
    /\ send_task_ended
    /\ dpc' = "returned"
    /\ UNCHANGED <<otherVars, receiver_dropped, blocked, resources, disk, threads_per_file, parallel_files, retries,
                   mirror, sources, status, tries, engine_tx, channel, requested,
                   mergeVars, modVars,
                   ruleVars, installVars>>

\* The caller drops the receiver of its channel while the call runs.
DropReceiver ==
    /\ dpc \in {"check", "fetch"}
    /\ ~receiver_dropped
    /\ receiver_dropped' = TRUE
    /\ UNCHANGED <<blocked, resources, disk, threads_per_file, parallel_files, retries,
                   mirror, dpc, sources, status, tries, engine_tx, channel, requested,
                   mergeVars, modVars, ruleVars, installVars, otherVars>>

NextDownload ==
    \/ PreFilter
    \/ StartTransfer
    \/ \E i \in 1..Len(sources) : TransferSucceed(i)
    \/ \E i \in 1..Len(sources) : TransferFail(i)
    \/ \E i \in 1..Len(sources) : FetchTaskNext(i)
    \/ SendTaskForward
    \/ Return

SpecDownload == InitDownload /\ [][NextDownload]_vars

SpecPreFilter == InitPreFilter /\ [][NextDownload]_vars

(***************************************************************************)
(* SpecFetch: lists of resources with distinct destinations, none of them  *)
(* satisfied on disk (no file, or a file of another content), some of them *)
(* under a directory that cannot be created, under every retry budget.     *)
(* Each attempt of each transfer may fail or succeed.                      *)
(***************************************************************************)
DistinctDestinations(rs) ==
    \A j, k \in 1..Len(rs) : rs[j][2] = rs[k][2] => j = k

InitFetch ==
    /\ resources \in {rs \in SeqsUpTo(FetchEntries, MaxRes) : DistinctDestinations(rs)}
    /\ blocked \in SUBSET Paths
    /\ disk \in {d \in [Paths -> {NoFile, Other}] : \A p \in blocked : d[p] = NoFile}
    /\ threads_per_file = 1
    /\ parallel_files \in 1..MaxParallel
    /\ retries \in 0..MaxRetries
    /\ mirror = None
    /\ DownloadStart

SpecFetch == InitFetch /\ [][NextDownload]_vars

\* The same inputs with no retry or a single one, for the property that
\* every call returns.
InitFetchFair ==
    /\ resources \in {rs \in SeqsUpTo(FetchEntries, MaxRes) : DistinctDestinations(rs)}
    /\ blocked \in SUBSET Paths
    /\ disk \in {d \in [Paths -> {NoFile, Other}] : \A p \in blocked : d[p] = NoFile}
    /\ threads_per_file = 1
    /\ parallel_files \in 1..MaxParallel
    /\ retries \in {0, 1}
    /\ mirror = None
    /\ DownloadStart

\* tokio::join! polls both tasks and every attempt of the engine ends (it
\* has a timeout), so a step that can be taken is taken.
SpecFetchFair == InitFetchFair /\ [][NextDownload]_vars /\ WF_vars(NextDownload)

\* The same call with a caller that may drop its receiver at any moment;
\* the caller is under no obligation, the call's steps are taken as above.
NextDrain == NextDownload \/ DropReceiver

InitDrain ==
    /\ resources \in {rs \in SeqsUpTo(FetchEntries, MaxRes) : DistinctDestinations(rs)}
    /\ blocked \in {{}, {"libraries/p2"}}
    /\ disk = [p \in Paths |-> NoFile]
    /\ threads_per_file = 1
    /\ parallel_files \in 1..MaxParallel
    /\ retries = 0
    /\ mirror = None
    /\ DownloadStart

SpecDrain == InitDrain /\ [][NextDrain]_vars /\ WF_vars(NextDownload)

(***************************************************************************)
(* C8: an entry whose file is on disk with the expected size (not compared *)
(* when the expected size is 0) and the expected digest is dropped by the  *)
(* pre-filter and every other entry is handed to the fetch engine, in the  *)
(* order of the list; a destination for which no entry was handed gets no  *)
(* network request and no event.  A file that cannot be read has no digest *)
(* to compare and fails the check.                                         *)
(***************************************************************************)
C8_Satisfied(k) ==
    LET res == resources[k][1]
        file == disk[resources[k][2]]
    IN /\ file.exists
       /\ res.size = 0 \/ file.size = res.size
       /\ file.readable
       /\ file.sha1 = res.sha1

C8_Handed ==
    LET Fails(k) == ~C8_Satisfied(k)
    IN SelectSeq([k \in 1..Len(resources) |-> k], Fails)

C8_Untouched(p) ==
    /\ channel[p] = <<>>
    /\ \A j \in 1..Len(engine_tx) : engine_tx[j].path # p
    /\ \A k \in 1..Len(resources) :
          resources[k][2] = p =>
              /\ resources[k][1].url \notin requested
              /\ mirror.some => mirrored(resources[k][1].url, mirror.v) \notin requested

C8_PreFilterDropsSatisfied ==
    /\ (dpc = "fetch" /\ \A i \in 1..Len(sources) : status[i] = "queued") =>
          /\ Len(sources) = Len(C8_Handed)
          /\ \A i \in 1..Len(sources) :
                /\ sources[i].dest = resources[C8_Handed[i]][2]
                /\ sources[i].urls[Len(sources[i].urls)] = resources[C8_Handed[i]][1].url
    /\ dpc \in {"fetch", "returned"} =>
          \A p \in Paths :
              (\A i \in 1..Len(sources) : sources[i].dest # p) => C8_Untouched(p)

C8_Witness ==
    /\ dpc = "returned"
    /\ Len(resources) = 2
    /\ resources[1] = <<Resource(Url("libraries.minecraft.net", "p1"), "aa", 0), "libraries/p1">>
    /\ resources[2][2] = "libraries/p2"
    /\ disk["libraries/p1"] = Good
    /\ Len(sources) = 1
    /\ sources[1].dest = "libraries/p2"
    /\ C8_Untouched("libraries/p1")
    /\ Len(channel["libraries/p2"]) = 4
    /\ channel["libraries/p2"][4].event = "Fetched"

(***************************************************************************)
(* C9: when the resource list holds several entries with one destination   *)
(* path, that destination is fetched at most once during the call.         *)
(***************************************************************************)
C9_Fetches(p) == {i \in 1..Len(sources) : sources[i].dest = p /\ status[i] # "queued"}

C9_EachDestinationFetchedOnce ==
    \A p \in Paths : dpc \in {"fetch", "returned"} => Cardinality(C9_Fetches(p)) <= 1

(***************************************************************************)
(* C10: at no moment of a download_all call are more than parallel_files   *)
(* file transfers active, whatever threads_per_file is.  The files with an *)
(* active transfer are counted by destination.                             *)
(***************************************************************************)
C10_ActiveFiles == {sources[i].dest : i \in Active}

C10_AtMostParallelFilesActive ==
    dpc = "fetch" => Cardinality(C10_ActiveFiles) <= parallel_files

(***************************************************************************)
(* The messages about a path on the caller's channel.                      *)
(***************************************************************************)
IsFetched(m) == m.ok /\ m.event = "Fetched"
IsErr(m) == ~m.ok
IsTerminal(m) == IsFetched(m) \/ IsErr(m)

FetchedCount(p) == Cardinality({j \in 1..Len(channel[p]) : IsFetched(channel[p][j])})
ErrCount(p) == Cardinality({j \in 1..Len(channel[p]) : IsErr(channel[p][j])})

(***************************************************************************)
(* C11: when download_all has returned, a resource whose transfer failed   *)
(* retries - 1 times (and so succeeded on the next attempt, within the     *)
(* retry budget) has exactly one Fetched message and no Err message on     *)
(* the channel, and its file is on disk.                                   *)
(***************************************************************************)
C11_RetriedThenFetched ==
    dpc = "returned" =>
        \A i \in 1..Len(sources) :
            tries[i] = retries - 1 =>
                /\ FetchedCount(sources[i].dest) = 1
                /\ ErrCount(sources[i].dest) = 0
                /\ disk[sources[i].dest] = Good

C11_Witness ==
    /\ dpc = "returned"
    /\ retries = 2
    /\ Len(sources) = 1
    /\ tries[1] = 1
    /\ \E j \in 1..Len(channel[sources[1].dest]) :
          channel[sources[1].dest][j].event = "Retrying"
    /\ FetchedCount(sources[1].dest) = 1
    /\ disk[sources[1].dest] = Good

(***************************************************************************)
(* C12: when download_all has returned, a resource the engine gave up on   *)
(* (every attempt failed) has exactly one Err message and no Fetched       *)
(* message on the channel, and no file exists at its destination.          *)
(***************************************************************************)
C12_ExhaustedThenFailed ==
    dpc = "returned" =>
        \A i \in 1..Len(sources) :
            gave_up_on(i) =>
                /\ ErrCount(sources[i].dest) = 1
                /\ FetchedCount(sources[i].dest) = 0
                /\ ~disk[sources[i].dest].exists

C12_Witness ==
    /\ dpc = "returned"
    /\ retries = 1
    /\ blocked = {}
    /\ Len(sources) = 1
    /\ tries[1] = 3
    /\ gave_up_on(1)
    /\ ErrCount(sources[1].dest) = 1
    /\ disk[sources[1].dest] = NoFile

(***************************************************************************)
(* C13: every call of download_all returns, and when it has returned       *)
(* every resource handed to the engine has its terminal message (Fetched   *)
(* or Err) on the channel, however many of the resources failed and also   *)
(* when a destination directory could not be created.                      *)
(***************************************************************************)
C13_AllTerminal ==
    \A i \in 1..Len(sources) :
        \E j \in 1..Len(channel[sources[i].dest]) : IsTerminal(channel[sources[i].dest][j])

C13_FailuresAreIsolated ==
    (dpc = "check") ~> (dpc = "returned" /\ C13_AllTerminal)

C13_Witness ==
    /\ dpc = "returned"
    /\ Len(sources) = 2
    /\ blocked = {sources[1].dest}
    /\ gave_up_on(1)
    /\ ErrCount(sources[1].dest) = 1
    /\ ~gave_up_on(2)
    /\ FetchedCount(sources[2].dest) = 1
    /\ disk[sources[2].dest] = Good

(***************************************************************************)
(* C14: on the caller's channel the messages about one path are in causal  *)
(* order: no Progress before the ContentLength, and nothing about the path *)
(* after its terminal message (Fetched or Err).                            *)
(***************************************************************************)
C14_InOrder(ch) ==
    \A j, k \in 1..Len(ch) :
        j < k => /\ ~IsTerminal(ch[j])
                 /\ ~(ch[j].event = "Progress" /\ ch[k].event = "ContentLength")

C14_CausalOrderPerPath == \A p \in DOMAIN channel : C14_InOrder(channel[p])

(***************************************************************************)
(* C15: when download_all has returned, a count-only Started message is    *)
(* on its channel.                                                         *)
(***************************************************************************)
C15_StartedSignalSent ==
    dpc = "returned" =>
        \E p \in DOMAIN channel : \E j \in 1..Len(channel[p]) :
            channel[p][j].event = "Started"

(***************************************************************************)
(* The rule evaluator (utils.rs 64-95) and its callers: install_libraries  *)
(* (minecraft/install.rs 102-146), gen_classpath and transform_arg         *)
(* (minecraft/launch.rs 88-140).                                           *)
(***************************************************************************)
MaxRules == 2

OSTypes == {"linux", "windows", "osx"}

EnvRuleTypes == {"allow", "disallow"}

\* Option<HashMap<String, bool>>: no map, or a map naming one feature.
FeatureMaps == {None, Some([is_demo_user |-> TRUE])}

\* Option<RulePlatform>: none, a platform without a name, a named one.
RulePlatform(name) == [name |-> name]
RulePlatforms == {None, Some(RulePlatform(None))} \cup {Some(RulePlatform(Some(o))) : o \in OSTypes}

EnvRule(action, features, os) == [action |-> action, features |-> features, os |-> os]
EnvRules == {EnvRule(a, f, o) : a \in EnvRuleTypes, f \in FeatureMaps, o \in RulePlatforms}

RuleLists == SeqsUpTo(EnvRules, MaxRules)
OptionRules == {None} \cup {Some(l) : l \in RuleLists}

\* check_rule (utils.rs 64-72): a named OS decides alone; otherwise the
\* rule matches when it has no feature map.
check_rule(rule) ==
    IF rule.os.some /\ rule.os.v.name.some
    THEN current_os = rule.os.v.name.v
    ELSE ~rule.features.some

\* check_rules_no_option (utils.rs 75-82).
check_rules_no_option_any(rules) == \E i \in 1..Len(rules) : check_rule(rules[i])

check_rules_no_option(rules) == \A i \in 1..Len(rules) : check_rule(rules[i])

\* check_rules (utils.rs 85-95).
check_rules_all(rules) ==
    IF ~rules.some THEN TRUE
    ELSE \A i \in 1..Len(rules.v) : check_rule(rules.v[i])

check_rules(rules) ==
    IF ~rules.some THEN TRUE
    ELSE \E i \in 1..Len(rules.v) : check_rule(rules.v[i])

\* Library (schemas.rs 156-162): the variant, the coordinate's path, the
\* rules of its LibraryBase.
Library(kind, name, rules) == [kind |-> kind, name |-> name, rules |-> rules]

ArtifactLibrary(rules) == Library("VanillaForgeAndNeo", "org/lib/1.0/lib-1.0.jar", rules)
BaseOnlyLibrary == Library("BaseOnly", "org/base/1.0/base-1.0.jar", None)

BoolToString(b) == IF b THEN "true" ELSE "false"

\* LibraryFabricOldForgeAndLiteLoader (schemas.rs 132-141): the flag-gated
\* variant, without rules.
FlagGatedLibrary(name, clientreq) ==
    [kind |-> "FabricOldForgeAndLiteLoader", name |-> name, rules |-> None,
     url |-> "maven.example", clientreq |-> clientreq]

\* LibraryArtifact: the Resource and the path below libraries/.
LibraryArtifact(path) ==
    [res |-> Resource(Url("libraries.minecraft.net", path), "aa", 1), path |-> path]

\* LibraryVanillaNatives (schemas.rs 119-125): natives maps an OS to a
\* classifier key, classifiers maps a key to its artifact.
NativesLibrary(natives, classifiers, rules) ==
    [kind |-> "VanillaNatives", name |-> "org/native/1.0/native-1.0.jar",
     rules |-> rules, natives |-> natives, classifiers |-> classifiers]

\* install_libraries 131-132: classifiers.get(os).unwrap() of a key that
\* the classifiers do not hold.
natives_unwrap_panics(lib) ==
    /\ lib.kind = "VanillaNatives"
    /\ current_os \in DOMAIN lib.natives
    /\ lib.natives[current_os] \notin DOMAIN lib.classifiers

\* install_libraries 109-142: the (Resource, path) planned for one library.
library_resource(lib, always_download_nohash) ==
    CASE lib.kind = "VanillaForgeAndNeo" ->
            <<Resource(Url("libraries.minecraft.net", lib.name), "aa", 1),
              "libraries/" \o lib.name>>
      [] lib.kind = "FabricOldForgeAndLiteLoader" ->
            <<Resource(Url(lib.url, lib.name), BoolToString(always_download_nohash), 0),
              "libraries/" \o lib.name>>
      [] lib.kind = "VanillaNatives" ->
            <<lib.classifiers[lib.natives[current_os]].res,
              "libraries/" \o lib.classifiers[lib.natives[current_os]].path>>
      [] OTHER ->
            <<Resource(Url("libraries.minecraft.net", lib.name),
                       BoolToString(always_download_nohash), 0),
              "libraries/" \o lib.name>>

\* install_libraries 106-108, 118-120, 131: the libraries that plan a
\* resource.
plans_resource(lib) ==
    /\ check_rules(lib.rules)
    /\ lib.kind = "FabricOldForgeAndLiteLoader" => lib.clientreq
    /\ lib.kind = "VanillaNatives" => current_os \in DOMAIN lib.natives

\* install_libraries (install.rs 102-146), when no unwrap panics.
install_libraries(libs, always_download_nohash) ==
    LET kept == SelectSeq(libs, plans_resource)
    IN [k \in 1..Len(kept) |-> library_resource(kept[k], always_download_nohash)]

\* Whether install_libraries panics on these libraries.
install_libraries_panics(libs) ==
    \E k \in 1..Len(libs) : check_rules(libs[k].rules) /\ natives_unwrap_panics(libs[k])

\* gen_classpath (launch.rs 124-140): the active libraries that are not
\* native bundles, each path once, then the version's jar.
RECURSIVE classpath_of(_, _)
classpath_of(libs, acc) ==
    IF libs = <<>> THEN acc
    ELSE LET lib == Head(libs)
             path == "libraries/" \o lib.name
         IN IF ~check_rules(lib.rules) \/ lib.kind = "VanillaNatives"
                   \/ \E j \in 1..Len(acc) : acc[j] = path
            THEN classpath_of(Tail(libs), acc)
            ELSE classpath_of(Tail(libs), Append(acc, path))

gen_classpath(libs) == Append(classpath_of(libs, <<>>), "versions/inst/inst.jar")

\* Argument (schemas.rs 255-263).
ArgumentString(s) == [conditional |-> FALSE, rules |-> <<>>, value |-> <<s>>]
ArgumentConditional(rules, value) == [conditional |-> TRUE, rules |-> rules, value |-> value]

\* OneOrMoreArguments, as the list of its strings.
ArgumentValues == {<<"--demo">>, <<"--width", "${version_name}">>}

\* transform_arg 103-119: the placeholders of one string replaced.
replace_placeholders(str) == IF str = "${version_name}" THEN "inst" ELSE str

\* transform_arg (launch.rs 88-122).
transform_arg(arg) ==
    IF arg.conditional /\ ~check_rules_no_option(arg.rules)
    THEN <<>>
    ELSE [k \in 1..Len(arg.value) |-> replace_placeholders(arg.value[k])]

(***************************************************************************)
(* SpecRules: on every build target, either a library under every rule     *)
(* list (beside a library without rules) or a conditional argument under   *)
(* every rule list; install_libraries, gen_classpath and transform_arg run *)
(* once each, in any order.                                                *)
(***************************************************************************)
InitRules ==
    /\ current_os \in OSTypes
    /\ \/ /\ \E rules \in OptionRules : libraries = <<ArtifactLibrary(rules), BaseOnlyLibrary>>
          /\ argument = ArgumentString("${version_name}")
       \/ /\ libraries = <<BaseOnlyLibrary>>
          /\ \E rules \in RuleLists, value \in ArgumentValues :
                argument = ArgumentConditional(rules, value)
    /\ planned = <<>> /\ classpath = <<>> /\ transformed = <<>>
    /\ always_nohash = FALSE
    /\ unzipped = <<>>
    /\ MergeIdle
    /\ ModsIdle
    /\ DownloadIdle
    /\ InstallIdle
    /\ OthersIdle

InstallLibraries ==
    /\ current_os # ""
    /\ planned = <<>>
    /\ planned' = <<install_libraries(libraries, FALSE)>>
    /\ UNCHANGED <<otherVars, always_nohash, unzipped, current_os, libraries, argument, classpath, transformed,
                   mergeVars, modVars, downloadVars, installVars>>

GenClasspath ==
    /\ current_os # ""
    /\ classpath = <<>>
    /\ classpath' = <<gen_classpath(libraries)>>
    /\ UNCHANGED <<otherVars, always_nohash, unzipped, current_os, libraries, argument, planned, transformed,
                   mergeVars, modVars, downloadVars, installVars>>

TransformArg ==
    /\ current_os # ""
    /\ transformed = <<>>
    /\ transformed' = <<transform_arg(argument)>>
    /\ UNCHANGED <<otherVars, always_nohash, unzipped, current_os, libraries, argument, planned, classpath,
                   mergeVars, modVars, downloadVars, installVars>>

NextRules == InstallLibraries \/ GenClasspath \/ TransformArg

SpecRules == InitRules /\ [][NextRules]_vars

\* Whether install_libraries planned a resource for the library, and
\* whether gen_classpath listed it.
IsPlanned(lib) ==
    \E k \in 1..Len(planned[1]) : planned[1][k][2] = "libraries/" \o lib.name

OnClasspath(lib) ==
    \E k \in 1..Len(classpath[1]) : classpath[1][k] = "libraries/" \o lib.name

(***************************************************************************)
(* C16: check_rules is true for a library without rules, and for a library *)
(* with a rule list it is true iff at least one rule of the list matches   *)
(* under check_rule (false for the empty list); install_libraries plans a  *)
(* resource for exactly the libraries whose check_rules is true.           *)
(***************************************************************************)
C16_ActiveIffSomeRuleMatches ==
    planned # <<>> =>
        \A k \in 1..Len(libraries) :
            LET lib == libraries[k]
                some_match == \E i \in 1..Len(lib.rules.v) : check_rule(lib.rules.v[i])
            IN /\ ~lib.rules.some => check_rules(lib.rules) /\ IsPlanned(lib)
               /\ lib.rules.some => /\ check_rules(lib.rules) <=> some_match
                                    /\ IsPlanned(lib) <=> some_match

C16_Witness ==
    /\ planned # <<>>
    /\ Len(libraries) = 2
    /\ libraries[1].rules.some
    /\ Len(libraries[1].rules.v) = 2
    /\ ~check_rule(libraries[1].rules.v[1])
    /\ check_rule(libraries[1].rules.v[2])
    /\ IsPlanned(libraries[1])
    /\ Len(planned[1]) = 2

(***************************************************************************)
(* C17: check_rules_no_option is true iff every rule of the list matches   *)
(* under check_rule (true for the empty list); transform_arg yields no     *)
(* argument for a conditional argument whose rules do not all match, and   *)
(* the argument's values otherwise.                                        *)
(***************************************************************************)
C17_ConditionalNeedsEveryRule ==
    (transformed # <<>> /\ argument.conditional) =>
        LET all_match == \A i \in 1..Len(argument.rules) : check_rule(argument.rules[i])
        IN /\ check_rules_no_option(argument.rules) <=> all_match
           /\ ~all_match => transformed[1] = <<>>
           /\ all_match => Len(transformed[1]) = Len(argument.value)

C17_Witness ==
    /\ transformed = <<<<>>>>
    /\ argument.conditional
    /\ Len(argument.rules) = 2
    /\ check_rule(argument.rules[1])
    /\ ~check_rule(argument.rules[2])

(***************************************************************************)
(* C18: a library whose rule list holds a disallow rule naming the current *)
(* OS is not active: install_libraries plans no resource for it and        *)
(* gen_classpath gives it no entry.                                        *)
(***************************************************************************)
C18_Disallowed(lib) ==
    /\ lib.rules.some
    /\ \E i \in 1..Len(lib.rules.v) :
          /\ lib.rules.v[i].action = "disallow"
          /\ lib.rules.v[i].os = Some(RulePlatform(Some(current_os)))

C18_DisallowIsHonoured ==
    \A k \in 1..Len(libraries) :
        C18_Disallowed(libraries[k]) =>
            /\ planned # <<>> => ~IsPlanned(libraries[k])
            /\ classpath # <<>> => ~OnClasspath(libraries[k])

(***************************************************************************)
(* C19: check_rule is false for every rule with a feature map, whatever    *)
(* its OS constraint, and true for a rule with neither an OS constraint    *)
(* nor a feature map.  Stated of the rules of the libraries and of the     *)
(* argument at hand, once install_libraries and transform_arg evaluated    *)
(* them.                                                                   *)
(***************************************************************************)
C19_Rules ==
    UNION {{libraries[k].rules.v[i] : i \in 1..Len(libraries[k].rules.v)} :
              k \in 1..Len(libraries)}
    \cup {argument.rules[i] : i \in 1..Len(argument.rules)}

C19_FeatureRulesNeverMatch ==
    (planned # <<>> /\ transformed # <<>>) =>
        \A rule \in C19_Rules :
            /\ rule.features.some => ~check_rule(rule)
            /\ (~rule.os.some /\ ~rule.features.some) => check_rule(rule)

(***************************************************************************)
(* ComponentInstaller::install (components/install/fabriclike.rs 124-135,  *)
(* components/install/forgelike.rs 109-198).                               *)
(*                                                                         *)
(* obj is mc.obj, overlay the add-on's descriptor (the loader profile, the *)
(* installer's version.json or the old profile's versionInfo), merged the  *)
(* result of the merge_version_json call when one was made.                *)
(***************************************************************************)
Installers == {"fabric", "forge", "neoforge"}

\* supports_older_version (forge.rs 35-37, neoforge.rs 38-40).
supports_older_version(inst) == inst = "forge"

\* The shapes of install_profile.json an installer's archive can hold.
ProfilesOf(inst) == IF inst = "fabric" THEN {"none"} ELSE {"old", "new"}

\* InstallerProfileNew::libraries: the libraries the processors need.
ProfileLibraries == <<"installertools">>

\* The fallible steps of install, in the order of the code.
\*   fetch     the profile or the installer archive cannot be fetched/read
\*   mojmaps   download_res of the client mappings fails (forgelike 124)
\*   processor a processor exits with failure (forgelike 173-181)
\*   copy      the universal jar cannot be copied (forgelike 192)
\*   create    File::create of the descriptor fails
\*   write     serde_json::to_writer fails after the file was truncated
FailurePoints(inst, prof) ==
    IF inst = "fabric" THEN {"none", "fetch", "create", "write"}
    ELSE IF prof = "new" THEN {"none", "fetch", "mojmaps", "processor", "create", "write"}
    ELSE IF supports_older_version(inst) THEN {"none", "fetch", "copy", "create", "write"}
    ELSE {"none", "fetch"}

Truncated == "truncated"

\* The libraries of a descriptor as Library values without rules.
libraries_of(names) == [k \in 1..Len(names) |-> Library("BaseOnly", names[k], None)]

\* What one install call leaves behind, as the values of obj, merged,
\* persisted, downloaded and install_ret.
Outcome(o, m, p, d, r) ==
    [obj |-> o, merged |-> m, persisted |-> p, downloaded |-> d, ret |-> r]

\* fabriclike.rs 124-135.
fabriclike_install(fail) ==
    LET m == merge_version_json(obj, overlay)
    IN IF fail = "fetch"
       THEN Outcome(obj, merged, persisted, downloaded, Err("fetch"))
       ELSE IF ~m.ok
       THEN Outcome(obj, <<m>>, persisted, downloaded, Err(m.error))
       ELSE IF fail = "create"
       THEN Outcome(m.value, <<m>>, persisted, downloaded, Err("create"))
       ELSE IF fail = "write"
       THEN Outcome(m.value, <<m>>, <<Truncated>>, downloaded, Err("write"))
       ELSE Outcome(m.value, <<m>>, <<m.value>>,
                    <<install_libraries(libraries_of(overlay.base.libraries), TRUE)>>,
                    Ok("unit"))

\* forgelike.rs 119-184 and 195-197: the new install profile.
forgelike_install_new(fail) ==
    LET m == merge_version_json(obj, overlay)
        res == install_libraries(libraries_of(ProfileLibraries), FALSE)
               \o install_libraries(libraries_of(overlay.base.libraries), FALSE)
    IN IF fail \in {"fetch", "mojmaps"}
       THEN Outcome(obj, merged, persisted, downloaded, Err(fail))
       ELSE IF ~m.ok
       THEN Outcome(obj, <<m>>, persisted, downloaded, Err(m.error))
       ELSE IF fail = "processor"
       THEN Outcome(obj, <<m>>, persisted, <<res>>, Err("A processor failed to run!"))
       ELSE IF fail = "create"
       THEN Outcome(obj, <<m>>, persisted, <<res>>, Err("create"))
       ELSE IF fail = "write"
       THEN Outcome(obj, <<m>>, <<Truncated>>, <<res>>, Err("write"))
       ELSE Outcome(m.value, <<m>>, <<m.value>>, <<res>>, Ok("unit"))

\* forgelike.rs 185-197: the old install profile.
forgelike_install_old(inst, fail) ==
    LET m == merge_version_json(obj, overlay)
    IN IF fail = "fetch"
       THEN Outcome(obj, merged, persisted, downloaded, Err("fetch"))
       ELSE IF ~supports_older_version(inst)
       THEN Outcome(obj, merged, persisted, downloaded, Ok("unit"))
       ELSE IF ~m.ok
       THEN Outcome(obj, <<m>>, persisted, downloaded, Err(m.error))
       ELSE IF fail = "copy"
       THEN Outcome(obj, <<m>>, persisted, downloaded, Err("copy"))
       ELSE IF fail = "create"
       THEN Outcome(obj, <<m>>, persisted, downloaded, Err("create"))
       ELSE IF fail = "write"
       THEN Outcome(obj, <<m>>, <<Truncated>>, downloaded, Err("write"))
       ELSE Outcome(m.value, <<m>>, <<m.value>>, downloaded, Ok("unit"))

install(inst, prof, fail) ==
    IF inst = "fabric" THEN fabriclike_install(fail)
    ELSE IF prof = "new" THEN forgelike_install_new(fail)
    ELSE forgelike_install_old(inst, fail)

(***************************************************************************)
(* SpecInstall: one install call of each installer on an installation      *)
(* whose descriptor is on disk, with every overlay descriptor and every    *)
(* failing step.                                                           *)
(***************************************************************************)
InstallBases == {v \in VersionJSON("base") : v.base.libraries = <<"lib1">>}

InitInstall ==
    /\ obj \in InstallBases
    /\ overlay \in VersionJSON("overlay")
    /\ merged = <<>>
    /\ overlay2 = <<>>
    /\ regrouped = <<>>
    /\ installer \in Installers
    /\ profile \in ProfilesOf(installer)
    /\ persisted = <<obj>>
    /\ downloaded = <<>>
    /\ install_ret = <<>>
    /\ game_version = Some("1.20.1")
    /\ components = <<>>
    /\ extras_file = <<>>
    /\ component_ret = <<>>
    /\ invoked = {}
    /\ ModsIdle
    /\ DownloadIdle
    /\ RulesIdle
    /\ OthersIdle

Install ==
    /\ installer # ""
    /\ install_ret = <<>>
    /\ \E fail \in FailurePoints(installer, profile) :
          LET out == install(installer, profile, fail)
          IN /\ obj' = out.obj
             /\ merged' = out.merged
             /\ persisted' = out.persisted
             /\ downloaded' = out.downloaded
             /\ install_ret' = <<out.ret>>
    /\ UNCHANGED <<otherVars, overlay2, regrouped, game_version, components,
                   extras_file, component_ret, invoked, overlay, installer, profile, modVars, downloadVars, ruleVars>>

NextInstall == Install

SpecInstall == InitInstall /\ [][NextInstall]_vars

(***************************************************************************)
(* C20: an install call that returned Ok has merged the overlay into the   *)
(* installation's descriptor with merge_version_json, has run download_all *)
(* on the overlay's libraries and has written the merged descriptor: the   *)
(* in-memory descriptor equals the persisted one and begins with the       *)
(* overlay's libraries.  For the fabric-like installer and for both        *)
(* install-profile shapes of Forge and NeoForge.                           *)
(***************************************************************************)
C20_OverlayPlanned ==
    /\ downloaded # <<>>
    /\ \A k \in 1..Len(overlay.base.libraries) :
          \E j \in 1..Len(downloaded[1]) :
              downloaded[1][j][2] = "libraries/" \o overlay.base.libraries[k]

C20_InstallMergesDownloadsPersists ==
    (install_ret # <<>> /\ install_ret[1].ok) =>
        /\ merged # <<>>
        /\ merged[1] = Ok(obj)
        /\ persisted = <<obj>>
        /\ SubSeq(obj.base.libraries, 1, Len(overlay.base.libraries)) = overlay.base.libraries
        /\ obj.base.main_class = overlay.base.main_class
        /\ C20_OverlayPlanned

(***************************************************************************)
(* The installation's component list (components/install/mod.rs,           *)
(* minecraft/version.rs) and its mods directory (components/mods.rs).      *)
(***************************************************************************)
MaxFiles == 2

\* ComponentInfo (version.rs): one installed component.
ComponentInfo(name, version) == [name |-> name, version |-> version]

ComponentVersions == {"0.15.0", "0.16.0"}

\* DMCLCExtraData as it is serialised into dmclc_extras.json.
DMCLCExtraData(version, comps) == [version |-> version, components |-> comps]

VersionUnknown == Err("loaders.minecraft_version_unknown")

\* What install_component leaves behind: the outcome of the installer's
\* install, the component list, the extras document, the methods called on
\* installers and loaders, and the returned Result.
ComponentOutcome(out, comps, extras, inv, r) ==
    [out |-> out, components |-> comps, extras_file |-> extras,
     invoked |-> inv, ret |-> r]

Untouched == Outcome(obj, merged, persisted, downloaded, Ok("unit"))

\* install_component without the guard of mod.rs 41-43.
install_component_unguarded(component, prof, version, fail) ==
    LET out == install(component, prof, fail)
    IN IF ~out.ret.ok
       THEN ComponentOutcome(out, components, extras_file,
                             invoked \cup {"install"}, out.ret)
       ELSE ComponentOutcome(out, Append(components, ComponentInfo(component, version)),
                             extras_file, invoked \cup {"install"}, Ok("unit"))

\* install_component (components/install/mod.rs 40-50).
install_component(component, prof, version, fail) ==
    IF game_version = None
    THEN ComponentOutcome(Untouched, components, extras_file, invoked, VersionUnknown)
    ELSE LET out == install(component, prof, fail)
         IN IF ~out.ret.ok
            THEN ComponentOutcome(out, components, extras_file,
                                  invoked \cup {"install"}, out.ret)
            ELSE ComponentOutcome(out, Append(components, ComponentInfo(component, version)),
                                  extras_file, invoked \cup {"install"}, Ok("unit"))

\* get_extras (version.rs 83-89): what a reload reads when dmclc_extras.json
\* exists.
get_extras == extras_file[1]

\* The mod loaders of a component: fabric_get_loader (fabriclike.rs 40-52),
\* quilt_get_loader (62-77), ForgeInstaller::get_mod_loaders (forge.rs 10-35).
ModComponents == {"fabric", "quilt", "forge"}

get_mod_loaders(component) ==
    CASE component = "fabric" -> <<"fabric">>
      [] component = "quilt" -> <<"quilt", "fabric">>
      [] OTHER -> <<"forge">>

\* fabric_get_loader and quilt_get_loader download the loader's jar and can
\* fail; the forge-like get_mod_loaders (forgelike.rs 89-91) cannot.
loaders_can_fail(comps) ==
    \E k \in 1..Len(comps) : comps[k].name \in {"fabric", "quilt"}

RECURSIVE loaders_of(_)
loaders_of(comps) ==
    IF comps = <<>> THEN <<>>
    ELSE get_mod_loaders(Head(comps).name) \o loaders_of(Tail(comps))

\* An entry of the mods directory: a directory, or a file that holds the
\* metadata of some loaders (fabric.mod.json, quilt.mod.json, mods.toml).
FileName(k) == "mod" \o ToString(k) \o ".jar"
ModIdOf(name) == SubSeq(name, 1, Len(name) - 4)

DirEntry(name, is_dir, metadata) ==
    [name |-> name, is_dir |-> is_dir, metadata |-> metadata]

FileKinds ==
    { <<TRUE, {}>>, <<FALSE, {}>>, <<FALSE, {"fabric"}>>, <<FALSE, {"quilt"}>>,
      <<FALSE, {"fabric", "quilt"}>>, <<FALSE, {"forge"}>> }

ModDirs ==
    { [k \in 1..Len(kinds) |-> DirEntry(FileName(k), kinds[k][1], kinds[k][2])] :
        kinds \in SeqsUpTo(FileKinds, MaxFiles) }

EmptyMap == [id \in {} |-> None]

insert(map, key, value) ==
    [k \in DOMAIN map \cup {key} |-> IF k = key THEN value ELSE map[k]]

\* get_mods_in_file (fabric.rs 184-186 with 140-146, quilt.rs 220-222 with
\* 161-167, new_forgelike.rs 173-175): by_name(...)? is an error when the
\* archive does not hold this loader's metadata.
get_mods_in_file(loader, file) ==
    IF loader \in file.metadata
    THEN Ok(<<ModInfo(ModIdOf(file.name), Some(loader), Some(1), <<>>)>>)
    ELSE Err("zip")

RECURSIVE insert_infos(_, _)
insert_infos(map, infos) ==
    IF infos = <<>> THEN map
    ELSE insert_infos(insert(map, Head(infos).id, Head(infos)), Tail(infos))

\* mods.rs 266-272: the loaders read one file in order; `?` returns the
\* first error.
RECURSIVE mods_in_file(_, _, _)
mods_in_file(file, loaders, acc) ==
    IF loaders = <<>> THEN Ok(acc)
    ELSE LET infos == get_mods_in_file(Head(loaders), file)
         IN IF ~infos.ok THEN infos
            ELSE mods_in_file(file, Tail(loaders), insert_infos(acc, infos.value))

\* mods.rs 264-275: the scan of the directory.
RECURSIVE scan(_, _, _)
scan(dir, loaders, acc) ==
    IF dir = <<>> THEN Ok(acc)
    ELSE IF Head(dir).is_dir THEN scan(Tail(dir), loaders, acc)
    ELSE LET in_file == mods_in_file(Head(dir), loaders, EmptyMap)
         IN IF ~in_file.ok THEN in_file
            ELSE scan(Tail(dir), loaders, insert(acc, Head(dir).name, in_file.value))

ListFailures(comps) ==
    {"none", "read_dir"} \cup (IF loaders_can_fail(comps) THEN {"get_mod_loaders"} ELSE {})

ListOutcome(r, inv) == [ret |-> r, invoked |-> inv]

\* list_mods (mods.rs 252-278).
list_mods(fail) ==
    IF game_version = None THEN ListOutcome(VersionUnknown, {})
    ELSE IF fail = "get_mod_loaders"
    THEN ListOutcome(Err("get_mod_loaders"), {"get_mod_loaders"})
    ELSE IF fail = "read_dir"
    THEN ListOutcome(Err("read_dir"),
                     IF components = <<>> THEN {} ELSE {"get_mod_loaders"})
    ELSE ListOutcome(scan(mod_files, loaders_of(components), EmptyMap),
                     (IF components = <<>> THEN {} ELSE {"get_mod_loaders"})
                     \cup (IF loaders_of(components) # <<>>
                              /\ \E k \in 1..Len(mod_files) : ~mod_files[k].is_dir
                           THEN {"get_mods_in_file"} ELSE {}))

\* get_builtin_mods of the loaders.
builtin_mod(loader) ==
    ModInfo(loader \o "_loader", Some(loader), Some(1), <<>>)

RECURSIVE flatten_files(_, _)
flatten_files(files, names) ==
    IF names = {} THEN EmptyMap
    ELSE LET n == CHOOSE x \in names : TRUE
             rest == flatten_files(files, names \ {n})
         IN [id \in DOMAIN rest \cup DOMAIN files[n] |->
                IF id \in DOMAIN files[n] THEN files[n][id] ELSE rest[id]]

Minecraft == ModInfo("minecraft", Some("Minecraft"), Some(1), <<>>)

\* MinecraftInstallation::check_mod_dependencies (mods.rs 220-246).  The mods
\* read from the directory declare no relation, so the issues do not depend
\* on the order in which the HashMap is iterated: one order is taken.
RECURSIVE an_order(_)
an_order(S) ==
    IF S = {} THEN <<>>
    ELSE LET x == CHOOSE y \in S : TRUE IN <<x>> \o an_order(S \ {x})

all_mods(listed) ==
    LET loaders == loaders_of(components)
        from_files == flatten_files(listed, DOMAIN listed)
        builtin == insert_infos(from_files, [k \in 1..Len(loaders) |-> builtin_mod(loaders[k])])
    IN insert(builtin, "minecraft", Minecraft)

installation_check_mod_dependencies(fail) ==
    LET listed == list_mods(fail)
    IN IF ~listed.ret.ok THEN listed
       ELSE ListOutcome(Ok(check_mod_dependencies(all_mods(listed.ret.value),
                               an_order(DOMAIN all_mods(listed.ret.value)))),
                        listed.invoked \cup
                        (IF components = <<>> THEN {} ELSE {"get_builtin_mods"}))

(***************************************************************************)
(* SpecComponent: an installation whose Minecraft version is known or not, *)
(* on which install_component, list_mods and check_mod_dependencies are    *)
(* each called once, in any order.  Either the installers, descriptors and *)
(* failing steps vary over an empty mods directory, or the installed       *)
(* components and the mods directory vary.                                 *)
(***************************************************************************)
Plain(v) == v.style = "Old" \/ ~v.arguments.jvm.some

ComponentBases == {v \in InstallBases : Plain(v)}

ComponentOverlays ==
    {v \in VersionJSON("overlay") : v.base.libraries = <<"lib2">> /\ Plain(v)}

InitialComponents ==
    {<<>>} \cup {<<ComponentInfo(c, "0.15.0")>> : c \in ModComponents}

OptionGameVersions == {None, Some("1.20.1")}

InitComponent ==
    /\ merged = <<>>
    /\ overlay2 = <<>>
    /\ regrouped = <<>>
    /\ game_version \in OptionGameVersions
    /\ \/ /\ obj \in ComponentBases
          /\ overlay \in ComponentOverlays
          /\ installer \in Installers
          /\ profile \in ProfilesOf(installer)
          /\ components \in {<<>>, <<ComponentInfo("quilt", "0.15.0")>>}
          /\ mod_files = <<>>
       \/ /\ obj = CHOOSE v \in ComponentBases : TRUE
          /\ overlay = CHOOSE v \in ComponentOverlays : TRUE
          /\ installer = "fabric"
          /\ profile = "none"
          /\ components \in InitialComponents
          /\ mod_files \in ModDirs
    /\ persisted = <<obj>>
    /\ extras_file \in {<<>>, <<DMCLCExtraData(game_version, components)>>}
    /\ downloaded = <<>>
    /\ install_ret = <<>>
    /\ component_ret = <<>>
    /\ invoked = {}
    /\ list_ret = <<>>
    /\ deps_ret = <<>>
    /\ VersionsIdle
    /\ LaunchIdle
    /\ ModsIdle
    /\ DownloadIdle
    /\ RulesIdle

InstallComponent ==
    /\ installer # ""
    /\ component_ret = <<>>
    /\ \E version \in ComponentVersions, fail \in FailurePoints(installer, profile) :
          LET done == install_component(installer, profile, version, fail)
          IN /\ obj' = done.out.obj
             /\ merged' = done.out.merged
             /\ persisted' = done.out.persisted
             /\ downloaded' = done.out.downloaded
             /\ components' = done.components
             /\ extras_file' = done.extras_file
             /\ invoked' = done.invoked
             /\ component_ret' = <<done.ret>>
    /\ UNCHANGED <<overlay, overlay2, regrouped, installer, profile, install_ret,
                   game_version, listVars, versionVars, launchVars,
                   modVars, downloadVars, ruleVars>>

ListMods ==
    /\ installer # ""
    /\ list_ret = <<>>
    /\ \E fail \in ListFailures(components) :
          LET done == list_mods(fail)
          IN /\ list_ret' = <<done.ret>>
             /\ invoked' = invoked \cup done.invoked
    /\ UNCHANGED <<mergeVars, installer, profile, persisted, downloaded, install_ret,
                   game_version, components, extras_file, component_ret,
                   mod_files, deps_ret, versionVars, launchVars,
                   modVars, downloadVars, ruleVars>>

InstallationCheckModDependencies ==
    /\ installer # ""
    /\ deps_ret = <<>>
    /\ \E fail \in ListFailures(components) :
          LET done == installation_check_mod_dependencies(fail)
          IN /\ deps_ret' = <<done.ret>>
             /\ invoked' = invoked \cup done.invoked
    /\ UNCHANGED <<mergeVars, installer, profile, persisted, downloaded, install_ret,
                   game_version, components, extras_file, component_ret,
                   mod_files, list_ret, versionVars, launchVars,
                   modVars, downloadVars, ruleVars>>

NextComponent == InstallComponent \/ ListMods \/ InstallationCheckModDependencies

SpecComponent == InitComponent /\ [][NextComponent]_vars

InstallComponentReturned == component_ret = <<>> /\ component_ret' # <<>>

(***************************************************************************)
(* C21: when install_component returns Ok, exactly one ComponentInfo with  *)
(* the installed name and version has been appended at the end of the      *)
(* component list, and dmclc_extras.json has been rewritten so that a      *)
(* reload reads that same list.                                            *)
(***************************************************************************)
C21_InstalledComponentIsRecordedAndPersisted ==
    [][(InstallComponentReturned /\ component_ret'[1].ok) =>
          /\ \E version \in ComponentVersions :
                components' = Append(components, ComponentInfo(installer, version))
          /\ extras_file' # <<>>
          /\ get_extras'.components = components']_vars

(***************************************************************************)
(* C22: on an installation whose Minecraft version is unknown,             *)
(* install_component, list_mods and check_mod_dependencies each return the *)
(* version-unknown error at once: no installer or loader is called,        *)
(* nothing is downloaded, and the component list, the descriptor and its   *)
(* file stay as they were.                                                 *)
(***************************************************************************)
C22_UnknownVersionFailsFast ==
    [][game_version = None =>
          /\ component_ret' # component_ret => component_ret' = <<VersionUnknown>>
          /\ list_ret' # list_ret => list_ret' = <<VersionUnknown>>
          /\ deps_ret' # deps_ret => deps_ret' = <<VersionUnknown>>
          /\ UNCHANGED <<invoked, downloaded, components, obj, persisted>>]_vars

C22_Witness ==
    /\ game_version = None
    /\ component_ret = <<VersionUnknown>>
    /\ list_ret = <<VersionUnknown>>
    /\ deps_ret = <<VersionUnknown>>
    /\ invoked = {}
    /\ persisted = <<obj>>

(***************************************************************************)
(* C23: a file of the mods directory that a loader cannot parse does not   *)
(* abort list_mods: with the version known, the loaders obtained and the   *)
(* directory readable the call is Ok, every file has an entry, and the     *)
(* entry holds the file's mod exactly when one of the installation's       *)
(* loaders can read the file.  With Quilt installed the loaders are the    *)
(* Quilt and the Fabric loader.                                            *)
(***************************************************************************)
C23_Readable(file) ==
    \E k \in 1..Len(loaders_of(components)) :
        loaders_of(components)[k] \in file.metadata

C23_UnparseableFileIsSkipped ==
    list_ret # <<>> =>
        IF list_ret[1].ok
        THEN \A k \in 1..Len(mod_files) :
                ~mod_files[k].is_dir =>
                    /\ mod_files[k].name \in DOMAIN list_ret[1].value
                    /\ C23_Readable(mod_files[k])
                          <=> ModIdOf(mod_files[k].name)
                                 \in DOMAIN list_ret[1].value[mod_files[k].name]
        ELSE list_ret[1].error \in
                 {"loaders.minecraft_version_unknown", "get_mod_loaders", "read_dir"}

(***************************************************************************)
(* C30: when install_component returns an error, the installation is left  *)
(* as it was before the call: the component list, the in-memory descriptor *)
(* and the persisted <name>.json are unchanged, for the fabric-like and    *)
(* the forge-like installers.                                              *)
(***************************************************************************)
C30_FailedInstallLeavesInstallationAsBefore ==
    [][(InstallComponentReturned /\ ~component_ret'[1].ok) =>
          UNCHANGED <<components, obj, persisted>>]_vars

(***************************************************************************)
(* SpecChain: two add-ons applied to a descriptor.  The installers apply   *)
(* them left to right (fabriclike.rs 130, forgelike.rs 133 and 191 each    *)
(* merge into mc.obj); Chain also computes the other grouping.             *)
(***************************************************************************)
\* merge_version_json(a, b)? followed by a merge with c.
merge_chain(a, b, c) ==
    LET ab == merge_version_json(a, b)
    IN IF ab.ok THEN merge_version_json(ab.value, c) ELSE ab

\* merge_version_json(b, c)? merged into a.
merge_regrouped(a, b, c) ==
    LET bc == merge_version_json(b, c)
    IN IF bc.ok THEN merge_version_json(a, bc.value) ELSE bc

ChainJSON(who, libs) == {v \in VersionJSON(who) : v.base.libraries \in libs}

InitChain ==
    /\ obj \in ChainJSON("base", {<<"lib1">>})
    /\ overlay \in ChainJSON("overlay", {<<"lib2">>})
    /\ overlay2 \in ChainJSON("overlay2", {<<"lib2", "lib1">>})
    /\ merged = <<>>
    /\ regrouped = <<>>
    /\ ModsIdle
    /\ DownloadIdle
    /\ RulesIdle
    /\ InstallIdle
    /\ OthersIdle

Chain ==
    /\ overlay2 # <<>>
    /\ merged = <<>>
    /\ merged' = <<merge_chain(obj, overlay, overlay2)>>
    /\ regrouped' = <<merge_regrouped(obj, overlay, overlay2)>>
    /\ UNCHANGED <<obj, overlay, overlay2, modVars, downloadVars, ruleVars,
                   installVars, otherVars>>

NextChain == Chain

SpecChain == InitChain /\ [][NextChain]_vars

(***************************************************************************)
(* C24: merge_version_json is associative on descriptors of one style:     *)
(* merge(merge(A, B), C) and merge(A, merge(B, C)) are both Ok and equal   *)
(* in every field (libraries, entry class, argument lists or legacy        *)
(* argument string, and the fields kept from A).                           *)
(***************************************************************************)
C24_OneStyle == obj.style = overlay.style /\ overlay.style = overlay2.style

C24_MergeIsAssociative ==
    (regrouped # <<>> /\ C24_OneStyle) =>
        /\ merged[1].ok
        /\ regrouped[1].ok
        /\ merged[1].value = regrouped[1].value

C24_Witness ==
    /\ regrouped # <<>>
    /\ C24_OneStyle
    /\ obj.style = "New"
    /\ obj.arguments.game.some /\ overlay.arguments.game.some
    /\ overlay2.arguments.game.some
    /\ merged[1].ok
    /\ merged[1].value.base.libraries = <<"lib2", "lib1", "lib2", "lib1">>
    /\ merged[1].value.arguments.game = Some(<<"base", "overlay", "overlay2">>)
    /\ merged[1].value = regrouped[1].value

(***************************************************************************)
(* The version list (minecraft/install.rs 17-40, schemas.rs 9-30).         *)
(***************************************************************************)
MaxListed == 3

VersionIds == {"1.20.1", "1.20.2", "24w14a"}

\* VersionInfo (schemas.rs 15-24): the id, the type and the url.
VersionInfo(id, typ, url) == [id |-> id, typ |-> typ, url |-> url]

VersionInfos ==
    { VersionInfo("1.20.1", "release", "u1"), VersionInfo("1.20.1", "release", "u2"),
      VersionInfo("1.20.2", "release", "u3"), VersionInfo("24w14a", "snapshot", "u4") }

LatestInfo(release, snapshot) == [release |-> release, snapshot |-> snapshot]

VersionList(latest, versions) == [latest |-> latest, versions |-> versions]

\* find_by_id (install.rs 26-28): the first entry with this id.
find_by_id(list, id) ==
    IF \E k \in 1..Len(list.versions) : list.versions[k].id = id
    THEN LET first == CHOOSE k \in 1..Len(list.versions) :
                          /\ list.versions[k].id = id
                          /\ \A j \in 1..(k - 1) : list.versions[j].id # id
         IN Some(list.versions[first])
    ELSE None

\* get_latest_release (install.rs 31-33).
get_latest_release(list) == find_by_id(list, list.latest.release)

\* get_latest_snapshot (install.rs 36-38) looks up latest.release.
get_latest_snapshot(list) == find_by_id(list, list.latest.release)

InitVersions ==
    /\ \E release \in VersionIds, snapshot \in VersionIds,
          versions \in SeqsUpTo(VersionInfos, MaxListed) :
          version_list = <<VersionList(LatestInfo(release, snapshot), versions)>>
    /\ release_ret = <<>>
    /\ snapshot_ret = <<>>
    /\ ListIdle
    /\ LaunchIdle
    /\ MergeIdle
    /\ ModsIdle
    /\ DownloadIdle
    /\ RulesIdle
    /\ InstallIdle

GetLatestRelease ==
    /\ version_list # <<>>
    /\ release_ret = <<>>
    /\ release_ret' = <<get_latest_release(version_list[1])>>
    /\ UNCHANGED <<version_list, snapshot_ret, listVars, launchVars, mergeVars,
                   modVars, downloadVars, ruleVars, installVars>>

GetLatestSnapshot ==
    /\ version_list # <<>>
    /\ snapshot_ret = <<>>
    /\ snapshot_ret' = <<get_latest_snapshot(version_list[1])>>
    /\ UNCHANGED <<version_list, release_ret, listVars, launchVars, mergeVars,
                   modVars, downloadVars, ruleVars, installVars>>

NextVersions == GetLatestRelease \/ GetLatestSnapshot

SpecVersions == InitVersions /\ [][NextVersions]_vars

(***************************************************************************)
(* C25: get_latest_snapshot returns the entry of versions whose id is      *)
(* latest.snapshot (None when there is none), get_latest_release the entry *)
(* whose id is latest.release; when the two ids differ, the two results    *)
(* differ unless both are None.                                            *)
(***************************************************************************)
C25_EntryOrNone(found, id) ==
    IF found.some
    THEN found.v.id = id
    ELSE \A k \in 1..Len(version_list[1].versions) : version_list[1].versions[k].id # id

C25_LatestSnapshotAndRelease ==
    /\ release_ret # <<>> =>
          C25_EntryOrNone(release_ret[1], version_list[1].latest.release)
    /\ snapshot_ret # <<>> =>
          C25_EntryOrNone(snapshot_ret[1], version_list[1].latest.snapshot)
    /\ (/\ release_ret # <<>> /\ snapshot_ret # <<>>
        /\ version_list[1].latest.release # version_list[1].latest.snapshot
        /\ (release_ret[1].some \/ snapshot_ret[1].some))
           => release_ret[1] # snapshot_ret[1]

(***************************************************************************)
(* SpecCompleteFiles: complete_files (install.rs 67-76) on the libraries   *)
(* of a descriptor: install_libraries plans the resources with the         *)
(* caller's always_download_nohash, download_all then runs on the plan.    *)
(* The libraries are coordinate-only, flag-gated or carry a digest; the    *)
(* first file on disk is absent, the published content, another content or *)
(* unreadable, the second holds the published content.                     *)
(***************************************************************************)
PlannedLibraries ==
    { Library("BaseOnly", "p1", None), Library("BaseOnly", "p2", None),
      FlagGatedLibrary("p1", TRUE), FlagGatedLibrary("p2", FALSE),
      Library("VanillaForgeAndNeo", "p2", None) }

InitCompleteFiles ==
    /\ current_os = "linux"
    /\ libraries \in SeqsUpTo(PlannedLibraries, MaxLibs)
    /\ always_nohash \in BOOLEAN
    /\ argument = <<>>
    /\ planned = <<>> /\ classpath = <<>> /\ transformed = <<>> /\ unzipped = <<>>
    /\ resources = <<>>
    /\ \E f1 \in {NoFile, Good, Other, Unreadable} :
          disk = [p \in Paths |-> IF p = "libraries/p1" THEN f1 ELSE Good]
    /\ threads_per_file = 1
    /\ parallel_files = 1
    /\ retries = 0
    /\ mirror = None
    /\ blocked = {}
    /\ dpc = "plan"
    /\ sources = <<>> /\ status = <<>> /\ tries = <<>>
    /\ engine_tx = <<>> /\ channel = [p \in Paths |-> <<>>] /\ requested = {}
    /\ receiver_dropped = FALSE
    /\ MergeIdle
    /\ ModsIdle
    /\ InstallIdle
    /\ OthersIdle

\* complete_files 68-74 with fix_client_jar false and an empty asset
\* index: the resources are those of the libraries.
PlanLibraries ==
    /\ dpc = "plan"
    /\ planned' = <<install_libraries(libraries, always_nohash)>>
    /\ resources' = install_libraries(libraries, always_nohash)
    /\ dpc' = "check"
    /\ UNCHANGED <<current_os, libraries, argument, classpath, transformed,
                   always_nohash, unzipped, disk, threads_per_file, parallel_files,
                   retries, mirror, blocked, sources, status, tries, engine_tx,
                   channel, requested, receiver_dropped,
                   mergeVars, modVars, installVars, otherVars>>

NextCompleteFiles == PlanLibraries \/ NextDownload

SpecCompleteFiles == InitCompleteFiles /\ [][NextCompleteFiles]_vars

(***************************************************************************)
(* C26: a Resource planned with the unknown-hash sentinel (for the         *)
(* coordinate-only and the flag-gated library variants) is refetched on    *)
(* every run: check_hash is false for it whatever file is on disk, the     *)
(* pre-filter of download_all hands it to the fetch engine, and with       *)
(* always_download_nohash set the planned digest is the sentinel.          *)
(***************************************************************************)
Sentinels == {BoolToString(TRUE), BoolToString(FALSE)}

C26_Unhashed(lib) ==
    \/ lib.kind = "BaseOnly"
    \/ lib.kind = "FabricOldForgeAndLiteLoader" /\ lib.clientreq

C26_PlannedWithSentinel(lib) ==
    \E k \in 1..Len(planned[1]) :
        /\ planned[1][k][2] = "libraries/" \o lib.name
        /\ planned[1][k][1].sha1 \in Sentinels
        /\ always_nohash => planned[1][k][1].sha1 = BoolToString(TRUE)

C26_Handed(entry) ==
    \E i \in 1..Len(sources) : sources[i].dest = entry[2]

C26_SentinelIsAlwaysRefetched ==
    planned # <<>> =>
        /\ \A k \in 1..Len(libraries) :
              C26_Unhashed(libraries[k]) => C26_PlannedWithSentinel(libraries[k])
        /\ \A k \in 1..Len(planned[1]) :
              planned[1][k][1].sha1 \in Sentinels =>
                  /\ ~check_hash(disk, planned[1][k][2], planned[1][k][1].sha1,
                                 planned[1][k][1].size)
                  /\ dpc # "check" => C26_Handed(planned[1][k])

C26_Witness ==
    /\ dpc = "returned"
    /\ always_nohash
    /\ Len(planned[1]) = 2
    /\ planned[1][1][1].sha1 = "true"
    /\ planned[1][1][2] = "libraries/p1"
    /\ disk["libraries/p1"] = Good
    /\ C26_Handed(planned[1][1])
    /\ \E k \in 1..Len(channel["libraries/p1"]) :
          channel["libraries/p1"][k] = OkMessage(FetchEvent("libraries/p1", "Fetched"))

(***************************************************************************)
(* Native bundles: install_libraries 130-135 and unzip_natives (launch.rs  *)
(* 65-81).                                                                 *)
(***************************************************************************)
\* get_bits (utils.rs 47-61) on a 64-bit build.
get_bits == "64"

ClassifierKeys == {"natives-linux", "natives-windows-${arch}", "natives-windows-64"}

\* str::replace("${arch}", &get_bits()) on the classifier keys.
replace_arch(key) ==
    IF key = "natives-windows-${arch}" THEN "natives-windows-" \o get_bits ELSE key

\* The natives maps of the model: no entry, an entry for one OS, an entry
\* with the architecture token.
NativesMaps ==
    { [os \in {} |-> ""],
      [os \in {"linux"} |-> "natives-linux"],
      [os \in {"windows"} |-> "natives-windows-${arch}"],
      [os \in {"linux", "windows"} |->
          IF os = "linux" THEN "natives-linux" ELSE "natives-windows-${arch}"] }

ClassifierMaps ==
    { [key \in keys |-> LibraryArtifact("org/native/1.0/native-1.0-" \o key \o ".jar")] :
        keys \in SUBSET ClassifierKeys }

\* The outcome of a call that can panic.
Panicked(done) == [panic |-> TRUE, value |-> done]
Finished(done) == [panic |-> FALSE, value |-> done]

\* unzip_natives (launch.rs 65-81): the archives opened, in order, until
\* the index natives[&get_os()] panics.
RECURSIVE unzip_natives(_, _)
unzip_natives(libs, opened) ==
    IF libs = <<>> THEN Finished(opened)
    ELSE LET n == Head(libs)
         IN IF n.kind # "VanillaNatives" \/ ~check_rules(n.rules)
            THEN unzip_natives(Tail(libs), opened)
            ELSE IF current_os \notin DOMAIN n.natives
            THEN Panicked(opened)
            ELSE LET env == replace_arch(n.natives[current_os])
                 IN IF env \notin DOMAIN n.classifiers
                    THEN unzip_natives(Tail(libs), opened)
                    ELSE unzip_natives(Tail(libs),
                             Append(opened, "libraries/" \o n.classifiers[env].path))

NativeRules == {None, Some(<<EnvRule("allow", None, Some(RulePlatform(Some("linux"))))>>)}

InitNatives ==
    /\ current_os \in OSTypes
    /\ \E natives \in NativesMaps, classifiers \in ClassifierMaps, rules \in NativeRules :
          libraries = <<NativesLibrary(natives, classifiers, rules)>>
    /\ argument = <<>>
    /\ planned = <<>> /\ classpath = <<>> /\ transformed = <<>>
    /\ always_nohash = FALSE
    /\ unzipped = <<>>
    /\ MergeIdle
    /\ ModsIdle
    /\ DownloadIdle
    /\ InstallIdle
    /\ OthersIdle

\* complete_files(false, false, ..) of launch_args (launch.rs 24): the plan
\* of install_libraries, or its panic.
PlanNatives ==
    /\ current_os # ""
    /\ planned = <<>>
    /\ planned' = IF install_libraries_panics(libraries)
                  THEN <<Panicked(<<>>)>>
                  ELSE <<Finished(install_libraries(libraries, always_nohash))>>
    /\ UNCHANGED <<current_os, libraries, argument, classpath, transformed,
                   always_nohash, unzipped, mergeVars, modVars, downloadVars,
                   installVars, otherVars>>

UnzipNatives ==
    /\ current_os # ""
    /\ unzipped = <<>>
    /\ unzipped' = <<unzip_natives(libraries, <<>>)>>
    /\ UNCHANGED <<current_os, libraries, argument, classpath, transformed,
                   always_nohash, planned, mergeVars, modVars, downloadVars,
                   installVars, otherVars>>

NextNatives == PlanNatives \/ UnzipNatives

SpecNatives == InitNatives /\ [][NextNatives]_vars

(***************************************************************************)
(* C27: for an active native-bundle library the planner resolves the       *)
(* classifier key of the current OS, substitutes the architecture token    *)
(* and plans the artifact under that key; without a natives entry for the  *)
(* current OS the library is skipped without panic by the planner and by   *)
(* unzip_natives; and every archive unzip_natives opens has a path the     *)
(* planner produced.                                                       *)
(***************************************************************************)
C27_Planned(path) ==
    \E k \in 1..Len(planned[1].value) : planned[1].value[k][2] = path

C27_NativesResolvedOrSkipped ==
    LET n == libraries[1]
        active == check_rules(n.rules)
        has_entry == current_os \in DOMAIN n.natives
    IN /\ planned # <<>> =>
             /\ ~planned[1].panic
             /\ (active /\ has_entry
                   /\ replace_arch(n.natives[current_os]) \in DOMAIN n.classifiers)
                   => C27_Planned("libraries/" \o
                          n.classifiers[replace_arch(n.natives[current_os])].path)
             /\ (~active \/ ~has_entry) => planned[1].value = <<>>
       /\ unzipped # <<>> =>
             /\ ~unzipped[1].panic
             /\ (~active \/ ~has_entry) => unzipped[1].value = <<>>
       /\ (planned # <<>> /\ unzipped # <<>>) =>
             \A k \in 1..Len(unzipped[1].value) : C27_Planned(unzipped[1].value[k])

(***************************************************************************)
(* launch_args (launch.rs 19-63).                                          *)
(***************************************************************************)
MaxGame == 2

\* The descriptors launched: the legacy argument string as the list of
\* its split(" ") pieces, or the argument lists.
LaunchWords == {"--username", "${version_name}"}

GameArguments ==
    { ArgumentString("--demo"),
      ArgumentConditional(<<EnvRule("allow", None, Some(RulePlatform(Some("linux"))))>>,
                          <<"--width", "${version_name}">>),
      ArgumentConditional(<<EnvRule("allow", None, Some(RulePlatform(Some("windows"))))>>,
                          <<"--demo">>) }

JvmArguments == {None, Some(<<ArgumentString("-Xss1M")>>)}

LaunchJSONOld ==
    { [style |-> "Old", main_class |-> "net.minecraft.Main", minecraft_arguments |-> words] :
        words \in SeqsUpTo(LaunchWords, MaxGame) \ {<<>>} }

LaunchJSONNew ==
    { [style |-> "New", main_class |-> "net.minecraft.Main",
       arguments |-> [game |-> game, jvm |-> jvm]] :
        game \in {None} \cup {Some(g) : g \in SeqsUpTo(GameArguments, MaxGame)},
        jvm \in JvmArguments }

ExtraJvmArguments == {None, Some(<<"-Xmx2G">>)}
ExtraGameArguments == {None, Some(<<"--fullscreen">>)}

\* Option<Vec<_>>::into_iter().flatten().
flatten_option(o) == IF o.some THEN o.v ELSE <<>>

\* account.get_launch_jvmargs (launch.rs 50).
AccountJvmArgs == <<"-Dminecraft.api.auth.host=auth.example">>

RECURSIVE join(_, _)
join(strs, sep) ==
    IF strs = <<>> THEN ""
    ELSE IF Len(strs) = 1 THEN strs[1]
    ELSE strs[1] \o sep \o join(Tail(strs), sep)

RECURSIVE transform_all(_)
transform_all(arguments) ==
    IF arguments = <<>> THEN <<>>
    ELSE transform_arg(Head(arguments)) \o transform_all(Tail(arguments))

\* launch.rs 53-58: each game argument, followed by the extra JVM arguments.
RECURSIVE transform_game(_, _)
transform_game(arguments, extra_jvm) ==
    IF arguments = <<>> THEN <<>>
    ELSE transform_arg(Head(arguments)) \o flatten_option(extra_jvm)
         \o transform_game(Tail(arguments), extra_jvm)

LaunchFailures == {"none", "login", "prepare_launch", "complete_files", "unzip_natives"}

\* launch_args (launch.rs 19-63).
launch_args(json, extra_jvm, extra_game, fail) ==
    IF fail # "none" THEN Err(fail)
    ELSE LET cp == join(gen_classpath(libraries), ":")
         IN IF json.style = "Old"
            THEN Ok(<<"-Djava.library.path=versions/inst/natives", "-cp", cp>>
                    \o flatten_option(extra_jvm)
                    \o <<json.main_class>>
                    \o transform_all([k \in 1..Len(json.minecraft_arguments) |->
                                         ArgumentString(json.minecraft_arguments[k])])
                    \o flatten_option(extra_game))
            ELSE Ok(transform_all(flatten_option(json.arguments.jvm))
                    \o AccountJvmArgs
                    \o flatten_option(extra_jvm)
                    \o <<json.main_class>>
                    \o transform_game(flatten_option(json.arguments.game), extra_jvm))

InitLaunch ==
    /\ obj \in LaunchJSONOld \cup LaunchJSONNew
    /\ overlay = <<>> /\ merged = <<>> /\ overlay2 = <<>> /\ regrouped = <<>>
    /\ extra_jvm_arguments \in ExtraJvmArguments
    /\ extra_game_arguments \in ExtraGameArguments
    /\ launch_ret = <<>>
    /\ current_os = "linux"
    /\ libraries = <<BaseOnlyLibrary>>
    /\ argument = <<>>
    /\ planned = <<>> /\ classpath = <<>> /\ transformed = <<>>
    /\ always_nohash = FALSE
    /\ unzipped = <<>>
    /\ ListIdle
    /\ VersionsIdle
    /\ ModsIdle
    /\ DownloadIdle
    /\ InstallIdle

LaunchArgs ==
    /\ extra_jvm_arguments # <<>>
    /\ launch_ret = <<>>
    /\ \E fail \in LaunchFailures :
          launch_ret' = <<launch_args(obj, extra_jvm_arguments, extra_game_arguments, fail)>>
    /\ UNCHANGED <<extra_jvm_arguments, extra_game_arguments, listVars, versionVars,
                   mergeVars, modVars, downloadVars, ruleVars, installVars>>

NextLaunch == LaunchArgs

SpecLaunch == InitLaunch /\ [][NextLaunch]_vars

(***************************************************************************)
(* C28: in the vector launch_args returns, each extra JVM argument of the  *)
(* installation occurs exactly once, before the entry class, and each      *)
(* extra game argument occurs exactly once, after every game argument of   *)
(* the descriptor; for old-style and new-style descriptors with any number *)
(* of game arguments.                                                      *)
(***************************************************************************)
C28_Occurrences(args, token) == Cardinality({k \in 1..Len(args) : args[k] = token})

C28_ExtraArgumentsExactlyOnce ==
    (launch_ret # <<>> /\ launch_ret[1].ok) =>
        LET args == launch_ret[1].value
            main == CHOOSE k \in 1..Len(args) : args[k] = obj.main_class
        IN /\ extra_jvm_arguments.some =>
                 /\ C28_Occurrences(args, extra_jvm_arguments.v[1]) = 1
                 /\ args[main - 1] = extra_jvm_arguments.v[1]
           /\ extra_game_arguments.some =>
                 /\ C28_Occurrences(args, extra_game_arguments.v[1]) = 1
                 /\ args[Len(args)] = extra_game_arguments.v[1]

(***************************************************************************)
(* C29: download_all returns once every source handed to the engine has a  *)
(* result, and when it has returned every event the engine emitted was     *)
(* forwarded: the internal channel is empty, and unless the caller dropped *)
(* its receiver the caller's channel holds, for every source, as many      *)
(* events as the engine emitted for it.  A caller that never reads or that *)
(* drops its receiver does not keep the call from returning.               *)
(***************************************************************************)
C29_EveryResultReached ==
    /\ dpc = "fetch"
    /\ \A i \in 1..Len(sources) : status[i] \in {"ok", "err", "yielded"}

\* The events the engine emitted for a source that has its result:
\* Fetching, a Retrying for every failed attempt it retried, and
\* ContentLength, Progress, Fetched when it succeeded.
C29_Emitted(i) ==
    IF gave_up_on(i) THEN 1 + (tries[i] - 1) ELSE 1 + tries[i] + 3

C29_Forwarded(i) ==
    Cardinality({j \in 1..Len(channel[sources[i].dest]) : channel[sources[i].dest][j].ok})

C29_AllForwarded ==
    /\ engine_tx = <<>>
    /\ ~receiver_dropped => \A i \in 1..Len(sources) : C29_Forwarded(i) = C29_Emitted(i)

\* Return is taken from a state in which every result is reached, and
\* nothing changes after it: the property covers every return.
C29_ReturnsAfterDrain ==
    C29_EveryResultReached ~> (dpc = "returned" /\ C29_AllForwarded)

C29_Witness ==
    /\ dpc = "returned"
    /\ receiver_dropped
    /\ Len(sources) = 2
    /\ gave_up_on(1)
    /\ ~gave_up_on(2)
    /\ C29_Forwarded(1) < C29_Emitted(1)
    /\ C29_Forwarded(2) = 0

=============================================================================
